---------------------------- MODULE Spec2Model ----------------------------
(***************************************************************************)
(* A model of the L2 Agent: the main-world capture script (ring buffers,   *)
(* error normalisation, signal-based and DOM-based crash detection) and    *)
(* the popup dashboard's merge of two error histories (src/popup.js).      *)
(*                                                                         *)
(* Strings that the code concatenates or searches are sequences of tokens  *)
(* (Str): "" is <<>>, + is \o, a regular expression or includes() is a     *)
(* test on the tokens.  Strings the code only compares as a whole (error   *)
(* names, entry types, selectors) are TLA+ strings.                        *)
(***************************************************************************)
EXTENDS Integers, Sequences, FiniteSets, TLC

(***************************************************************************)
(* Program constants.                                                      *)
(***************************************************************************)
ConsoleCap == 100
PageCap == 50
ApiCap == 100
ApiRequestsCap == 200
WindowMs == 60000
CooldownMs == 10000
MaxDepth == 3
SerializeLimit == 2000
ReasonLimit == 100

(***************************************************************************)
(* Bounds of the model.                                                    *)
(***************************************************************************)
\* handler invocations explored from an initial state
MaxEvents == 3
\* the clock advances in steps of TickMs up to MaxTime (and further only to
\* let a pending timer come due)
TickMs == 5000
MaxTicks == 1
\* handler invocations explored under the fair clock and timers
MaxLatchEvents == 2
\* how far below its capacity a pre-filled buffer starts, and the handler
\* invocations explored from there
FillGap == 1
MaxBufEvents == 2
\* elements per category in the snapshots handed to the merge
MaxMergeLen == 2
\* wrappers around the value handed to extractErrorInfo
MaxChain == 2
\* cause / error / reason links in front of the value handed to it
MaxDeep == 4
\* entries fed to the signal detector from its start
MaxTriggerEvents == 3
\* the critical-error window: the step of the clock and its steps, the
\* entries fed, and how far below 10 elements a window starts that a burst
\* has filled
WindowTickMs == 30000
MaxWindowTicks == 2
MaxWindowEvents == 3
WindowGap == 1
\* handler invocations explored around the DOM detector
MaxDomEvents == 3

MaxTime == MaxTicks * TickMs

Min(a, b) == IF a < b THEN a ELSE b
Max(a, b) == IF a > b THEN a ELSE b

(***************************************************************************)
(* Token strings.                                                          *)
(***************************************************************************)
\* s.slice(0, n)
SliceHead(s, n) == SubSeq(s, 1, Min(Len(s), n))
\* s.slice(-n) of an array
SliceTail(s, n) == SubSeq(s, Max(1, Len(s) - n + 1), Len(s))
Contains(s, toks) == \E i \in 1..Len(s) : s[i] \in toks
EndsWith(s, toks) == Len(s) > 0 /\ s[Len(s)] \in toks

(***************************************************************************)
(* JavaScript values reachable from the page: a heap of objects and        *)
(* primitives, addressed by reference (0 is "no such property").           *)
(***************************************************************************)
BaseValue ==
    [tag |-> "object", name |-> "", message |-> <<>>, hasMessage |-> FALSE,
     stack |-> <<>>, componentStack |-> <<>>, typeF |-> "",
     cause |-> 0, error |-> 0, reason |-> 0,
     json |-> <<"{}">>, jsonThrows |-> FALSE,
     str |-> <<"[object Object]">>, strThrows |-> FALSE,
     ctor |-> "Object", typeofV |-> "object", falsy |-> FALSE]

\* JavaScript truthiness of the property held at reference r
Truthy(h, r) ==
    /\ r # 0
    /\ h[r].tag \notin {"null", "undefined"}
    /\ ~(h[r].tag = "primitive" /\ h[r].falsy)

NoInfo ==
    [threw |-> FALSE, type |-> "", message |-> <<>>, stack |-> <<>>,
     componentStack |-> <<>>, cause |-> <<>>]
Thrown == [NoInfo EXCEPT !.threw = TRUE]

\* a || b on strings
OrStr(a, b) == IF a # "" THEN a ELSE b
OrSeq(a, b) == IF a # <<>> THEN a ELSE b

\* (mutant) the depth test one level late
DepthExceeded_OneLate(depth) == depth > MaxDepth + 1

\* if (depth > 3)
DepthExceeded(depth) == depth > MaxDepth

MaxDepthSentinel ==
    [NoInfo EXCEPT !.message = <<"[Max depth reached]">>, !.type = "unknown"]

\* arg instanceof Error: a DOMException is one too, its prototype inherits
\* from Error.prototype
InstanceOfError(v) == v.tag \in {"Error", "DOMException"}

\* (mutant) the object rules with message tested before componentStack
ObjectRule_MessageFirst(h, v) ==
    IF v.hasMessage THEN "message"
    ELSE IF v.componentStack # <<>> THEN "componentStack"
    ELSE IF Truthy(h, v.error) THEN "error"
    ELSE IF Truthy(h, v.reason) THEN "reason"
    ELSE "serialize"

\* which of the rules for objects applies to v, in the order of their ifs
ObjectRule(h, v) ==
    IF v.componentStack # <<>> THEN "componentStack"
    ELSE IF v.hasMessage THEN "message"
    ELSE IF Truthy(h, v.error) THEN "error"
    ELSE IF Truthy(h, v.reason) THEN "reason"
    ELSE "serialize"

RECURSIVE extractErrorInfo(_, _, _)
extractErrorInfo(h, arg, depth) ==
    LET v == h[arg] IN
    IF DepthExceeded(depth)
    THEN MaxDepthSentinel
    ELSE IF v.tag = "null"
    THEN [NoInfo EXCEPT !.message = <<"null">>, !.type = "null"]
    ELSE IF v.tag = "undefined"
    THEN [NoInfo EXCEPT !.message = <<"undefined">>, !.type = "undefined"]
    ELSE IF InstanceOfError(v)
    THEN LET c == IF Truthy(h, v.cause)
                  THEN extractErrorInfo(h, v.cause, depth + 1)
                  ELSE NoInfo
         IN  IF c.threw THEN Thrown
             ELSE [NoInfo EXCEPT !.type = OrStr(v.name, "Error"),
                                 !.message = OrSeq(v.message, <<"No message">>),
                                 !.stack = v.stack,
                                 !.cause = c.message,
                                 !.componentStack = v.componentStack]
    ELSE IF v.tag = "ErrorEvent"
    THEN LET e == IF v.error # 0 /\ h[v.error].tag \notin {"null", "undefined"}
                  THEN h[v.error] ELSE BaseValue
         IN  [NoInfo EXCEPT !.type = OrStr(e.name, "ErrorEvent"),
                            !.message = OrSeq(v.message, OrSeq(e.message, <<"ErrorEvent">>)),
                            !.stack = e.stack]
    ELSE IF v.tag = "DOMException"
    THEN [NoInfo EXCEPT !.type = "DOMException", !.message = v.message]
    ELSE IF v.tag = "object"
    THEN IF ObjectRule(h, v) = "componentStack"
         THEN IF v.message = <<>> /\ v.strThrows THEN Thrown
              ELSE LET e == IF v.error # 0 /\ h[v.error].tag \notin {"null", "undefined"}
                            THEN h[v.error] ELSE BaseValue
                   IN  [NoInfo EXCEPT !.type = "ReactError",
                                      !.message = OrSeq(v.message, v.str),
                                      !.componentStack = v.componentStack,
                                      !.stack = OrSeq(e.stack, v.stack)]
         ELSE IF ObjectRule(h, v) = "message"
         THEN [NoInfo EXCEPT !.type = OrStr(v.name, OrStr(v.typeF, "ObjectError")),
                             !.message = v.message,
                             !.stack = v.stack]
         ELSE IF ObjectRule(h, v) = "error"
         THEN extractErrorInfo(h, v.error, depth + 1)
         ELSE IF ObjectRule(h, v) = "reason"
         THEN extractErrorInfo(h, v.reason, depth + 1)
         ELSE IF ~v.jsonThrows /\ v.json # <<>> /\ v.json # <<"{}">>
         THEN [NoInfo EXCEPT !.type = "Object",
                             !.message = SliceHead(v.json, SerializeLimit)]
         ELSE IF v.strThrows THEN Thrown
         ELSE [NoInfo EXCEPT !.type = OrStr(v.ctor, "Object"), !.message = v.str]
    ELSE [NoInfo EXCEPT !.type = v.typeofV, !.message = v.str]

\* the calls of extractErrorInfo that extractErrorInfo(arg, depth) makes,
\* itself included: one more for each arg.cause, arg.error or arg.reason it
\* descends into
RECURSIVE NestedCalls(_, _, _)
NestedCalls(h, arg, depth) ==
    LET v == h[arg] IN
    IF DepthExceeded(depth) THEN 1
    ELSE IF InstanceOfError(v)
    THEN IF Truthy(h, v.cause) THEN 1 + NestedCalls(h, v.cause, depth + 1) ELSE 1
    ELSE IF v.tag = "object" /\ ObjectRule(h, v) = "error"
    THEN 1 + NestedCalls(h, v.error, depth + 1)
    ELSE IF v.tag = "object" /\ ObjectRule(h, v) = "reason"
    THEN 1 + NestedCalls(h, v.reason, depth + 1)
    ELSE 1

\* one argument's part of formatArgs
FormatArg(info) ==
    IF info.stack # <<>>
    THEN <<info.type, ": ">> \o info.message \o <<"\n">> \o info.stack
    ELSE info.message

RECURSIVE JoinSpace(_)
JoinSpace(parts) ==
    IF Len(parts) = 0 THEN <<>>
    ELSE IF Len(parts) = 1 THEN parts[1]
    ELSE parts[1] \o <<" ">> \o JoinSpace(Tail(parts))

\* args: a sequence of references
formatArgs(h, args) ==
    JoinSpace([i \in 1..Len(args) |-> FormatArg(extractErrorInfo(h, args[i], 0))])


(***************************************************************************)
(* State.                                                                  *)
(***************************************************************************)
VARIABLES
    \* the page: its objects, the clock (ms since the script started)
    heap, now,
    \* main-world script
    localErrors,            \* [console, page, api, apiRequests]
    recentCriticalErrors,   \* the critical-error window
    crashTriggered,         \* the latch
    cooldownTimers,         \* due times of the pending setTimeout(..., 10000)
    lastDOMCrashReason,     \* <<>> is null
    lastDomReported,        \* reason of the last dom_based CrashEvent, <<>> none
    xhr,                    \* the wrapped XMLHttpRequest: idle, sent, failed
    \* what the last step did, as its environment sees it
    lastOp,                 \* the handler that ran
    posted,                 \* the messages window.postMessage took, in order
    hostException,          \* it let an exception escape to the page
    lastScan,               \* the last detectDOMCrash result, <<>> if no match
    \* history
    inserted,               \* every entry pushed, per buffer, in push order
    steps,                  \* handler invocations so far
    lastCrashAt,            \* time of the last crash_detected, -1 if none
    lastErrorCrashAt,       \* time of the last error_based one, -1 if none
    crashCount,             \* crash_detected messages sent, per method
    prevScan,               \* the detectDOMCrash result before lastScan
    seenReasons,            \* reasons any scan has returned
    \* popup dashboard
    data, pageData, mergeBase, mergeOnce, merges,
    \* extractErrorInfo called on its own
    normArg, normResult,
    \* the page around the script
    postMessageThrows,      \* window.postMessage throws when called
    \* the crash monitor: pending timers and the observer's handle
    setupTimers,            \* due times of the three scans of setupCrashMonitor
    scanTimers,             \* pending timers of the observer: [id, due]
    crashTimeout,           \* window.__l2CrashTimeout, 0 is undefined
    mutations,              \* callbacks of the observer so far
    lastMutationAt,         \* time of the last one, -1 before the first
    checksSinceMutation,    \* scans its timers have run since
    \* popup dashboard: its collaborators, its async handlers, its list
    stored,                 \* the snapshot the background holds
    pageStore,              \* the snapshot the content script holds
    loadPc,                 \* the await loadErrors is suspended at, or idle
    loadResp,               \* the response that await will resume with
    clearPc,                \* the await the clear handler is suspended at
    freshClear,             \* clear has reset data and no loadErrors began since
    currentTab,
    displayed               \* the items of errorList

agentVars ==
    <<now, localErrors, recentCriticalErrors, crashTriggered, cooldownTimers,
      lastDOMCrashReason, lastDomReported, xhr, lastOp, posted, hostException, lastScan,
      inserted, steps, lastCrashAt, lastErrorCrashAt, crashCount, prevScan,
      seenReasons>>
popupVars ==
    <<stored, pageStore, loadPc, loadResp, clearPc, freshClear, currentTab,
      displayed>>
dashVars == <<data, pageData, mergeBase, mergeOnce, merges, popupVars>>
normVars == <<normArg, normResult>>
envVars == <<postMessageThrows>>
monitorVars ==
    <<setupTimers, scanTimers, crashTimeout, mutations, lastMutationAt,
      checksSinceMutation>>
vars == <<heap, agentVars, dashVars, normVars, envVars, monitorVars>>

(***************************************************************************)
(* The objects of the page that the handlers of the agent are called with. *)
(***************************************************************************)
StackTok == <<"at f (app.js:1:1)">>
SampleHeap ==
    <<  \* 1: "boom"
        [BaseValue EXCEPT !.tag = "primitive", !.typeofV = "string",
                          !.str = <<"boom">>],
        \* 2: new TypeError("x is not a function")
        [BaseValue EXCEPT !.tag = "Error", !.name = "TypeError",
                          !.message = <<"x ", "is not a function">>,
                          !.hasMessage = TRUE, !.stack = StackTok],
        \* 3: new ReferenceError("x is not defined")
        [BaseValue EXCEPT !.tag = "Error", !.name = "ReferenceError",
                          !.message = <<"x ", "is not defined">>,
                          !.hasMessage = TRUE, !.stack = StackTok],
        \* 4: what React hands an error boundary's logger
        [BaseValue EXCEPT !.componentStack = <<"in App">>,
                          !.message = <<"cannot read propert", "ies of null">>,
                          !.hasMessage = TRUE],
        \* 5: "X IS NOT DEFINED"
        [BaseValue EXCEPT !.tag = "primitive", !.typeofV = "string",
                          !.str = <<"X ", "IS NOT DEFINED">>],
        \* 6: an object whose serialization throws (a cycle)
        [BaseValue EXCEPT !.jsonThrows = TRUE],
        \* 7: new TypeError("Failed to fetch")
        [BaseValue EXCEPT !.tag = "Error", !.name = "TypeError",
                          !.message = <<"Failed to fetch">>,
                          !.hasMessage = TRUE, !.stack = StackTok],
        \* 8: the ReferenceError of a let read before its declaration
        [BaseValue EXCEPT !.tag = "Error", !.name = "ReferenceError",
                          !.message = <<"Cannot access 'x' before initialization">>,
                          !.hasMessage = TRUE, !.stack = StackTok],
        \* 9: an object with a componentStack and a harmless message
        [BaseValue EXCEPT !.componentStack = <<"in App">>,
                          !.message = <<"render skipped">>,
                          !.hasMessage = TRUE],
        \* 10: "x is not defined"
        [BaseValue EXCEPT !.tag = "primitive", !.typeofV = "string",
                          !.str = <<"x ", "is not defined">>]
    >>

(***************************************************************************)
(* Capture script: sending, classification, the signal-based detector.     *)
(***************************************************************************)
\* sendToContentScript(type, data): the message handed to window.postMessage
sendToContentScript(type, d) ==
    [source |-> "L2_AGENT_MAIN_WORLD", type |-> type, data |-> d]

\* (mutant) sendToContentScript without its try/catch
sendOutcome_NoCatch(throws) == IF throws THEN "thrown" ELSE "posted"

\* how a call of sendToContentScript ends when window.postMessage throws or
\* not: try { window.postMessage(...) } catch (e) { _log(...) }
sendOutcome(throws) == IF throws THEN "logged" ELSE "posted"

\* the messages of msgs that window.postMessage took
Delivered(msgs) ==
    IF sendOutcome(postMessageThrows) = "posted" THEN msgs ELSE <<>>

\* an exception left sendToContentScript while a handler sent msgs
SendEscaped(msgs) ==
    msgs # <<>> /\ sendOutcome(postMessageThrows) = "thrown"

EndPatterns == {"is not defined", "IS NOT DEFINED", "is not a function"}
AnyPatterns ==
    {"cannot read propert", "cannot set propert", "undefined is not",
     "null is not", "maximum call stack", "out of memory", "chunk failed",
     "loading chunk", "dynamically imported module", "failed to fetch",
     "Failed to fetch"}
CRASH_ERROR_TYPES == {"ReferenceError", "TypeError", "ChunkLoadError", "SyntaxError"}

isCriticalError(errorType, message) ==
    \/ errorType \in CRASH_ERROR_TYPES
    \/ EndsWith(message, EndPatterns)
    \/ Contains(message, AnyPatterns)

CriticalTail == 10
ConsoleTail == 30
PageTail == 20
ApiTail == 30
ApiRequestsTail == 50

\* the crash_detected message of triggerCrashFromError; le is localErrors and
\* rce the window at the time of the call
ErrorCrashMessage(primaryError, le, rce) ==
    sendToContentScript("crash_detected",
        [type |-> "crash", detected |-> TRUE,
         reason |-> <<"Error: ", primaryError.errorType, " - ">>
                        \o SliceHead(primaryError.message, ReasonLimit),
         detectionMethod |-> "error_based",
         primaryError |-> [type |-> primaryError.errorType,
                           message |-> primaryError.message,
                           componentStack |-> primaryError.componentStack],
         recentCriticalErrors |-> SliceTail(rce, CriticalTail),
         recentConsoleErrors |-> SliceTail(le.console, ConsoleTail),
         recentPageErrors |-> SliceTail(le.page, PageTail),
         recentApiErrors |-> SliceTail(le.api, ApiTail),
         recentApiRequests |-> SliceTail(le.apiRequests, ApiRequestsTail),
         timestamp |-> now])

\* triggerCrashFromError: the state it leaves and the message it sends
triggerCrashFromError(primaryError, le, rce) ==
    [crashTriggered |-> TRUE,
     recentCriticalErrors |-> rce,
     cooldownTimers |-> Append(cooldownTimers, now + CooldownMs),
     posted |-> <<ErrorCrashMessage(primaryError, le, rce)>>]

\* (mutant) the filter keeping an element captured exactly 60000 ms ago
PushCritical_KeepsBoundary(entry) ==
    SelectSeq(Append(recentCriticalErrors, [entry |-> entry, capturedAt |-> now]),
              LAMBDA e : e.capturedAt >= now - WindowMs)

\* the window after the push and the 60 s filter
PushCritical(entry) ==
    SelectSeq(Append(recentCriticalErrors, [entry |-> entry, capturedAt |-> now]),
              LAMBDA e : e.capturedAt > now - WindowMs)

\* (mutant) the trigger rule reduced to the count of the window
shouldTriggerCrash_CountOnly(entry, rce) == Len(rce) >= 3

shouldTriggerCrash(entry, rce) ==
    \/ entry.errorType = "ReferenceError"
    \/ Contains(entry.message, {"is not defined"})
    \/ entry.componentStack # <<>>
    \/ Len(rce) >= 3

\* (mutant) the detector without its latch test
checkForErrorBasedCrash_NoLatch(entry, le) ==
    IF isCriticalError(entry.errorType, entry.message)
    THEN LET rce == PushCritical(entry) IN
         IF shouldTriggerCrash(entry, rce)
         THEN triggerCrashFromError(entry, le, rce)
         ELSE [crashTriggered |-> crashTriggered,
               recentCriticalErrors |-> rce,
               cooldownTimers |-> cooldownTimers,
               posted |-> <<>>]
    ELSE [crashTriggered |-> crashTriggered,
          recentCriticalErrors |-> recentCriticalErrors,
          cooldownTimers |-> cooldownTimers,
          posted |-> <<>>]

\* (mutant) the detector without the classification of the entry
checkForErrorBasedCrash_NoClassify(entry, le) ==
    LET rce == PushCritical(entry) IN
    IF shouldTriggerCrash(entry, rce) /\ ~crashTriggered
    THEN triggerCrashFromError(entry, le, rce)
    ELSE [crashTriggered |-> crashTriggered,
          recentCriticalErrors |-> rce,
          cooldownTimers |-> cooldownTimers,
          posted |-> <<>>]

\* checkForErrorBasedCrash(entry), called with localErrors already updated
checkForErrorBasedCrash(entry, le) ==
    IF isCriticalError(entry.errorType, entry.message)
    THEN LET rce == PushCritical(entry) IN
         IF shouldTriggerCrash(entry, rce) /\ ~crashTriggered
         THEN triggerCrashFromError(entry, le, rce)
         ELSE [crashTriggered |-> crashTriggered,
               recentCriticalErrors |-> rce,
               cooldownTimers |-> cooldownTimers,
               posted |-> <<>>]
    ELSE [crashTriggered |-> crashTriggered,
          recentCriticalErrors |-> recentCriticalErrors,
          cooldownTimers |-> cooldownTimers,
          posted |-> <<>>]

\* (mutant) the callback clears the window and leaves the latch set
CooldownFire_KeepsLatch ==
    /\ cooldownTimers # <<>>
    /\ Head(cooldownTimers) <= now
    /\ cooldownTimers' = Tail(cooldownTimers)
    /\ crashTriggered' = crashTriggered
    /\ recentCriticalErrors' = <<>>
    /\ lastOp' = "cooldown"
    /\ posted' = <<>>
    /\ hostException' = FALSE
    /\ UNCHANGED <<heap, now, localErrors, lastDOMCrashReason, lastDomReported, xhr, lastScan,
                   inserted, steps, lastCrashAt, lastErrorCrashAt, crashCount,
                   prevScan, seenReasons, dashVars, normVars, envVars, monitorVars>>

\* (mutant) the callback clears the latch and leaves the window
CooldownFire_KeepsWindow ==
    /\ cooldownTimers # <<>>
    /\ Head(cooldownTimers) <= now
    /\ cooldownTimers' = Tail(cooldownTimers)
    /\ crashTriggered' = FALSE
    /\ recentCriticalErrors' = recentCriticalErrors
    /\ lastOp' = "cooldown"
    /\ posted' = <<>>
    /\ hostException' = FALSE
    /\ UNCHANGED <<heap, now, localErrors, lastDOMCrashReason, lastDomReported, xhr, lastScan,
                   inserted, steps, lastCrashAt, lastErrorCrashAt, crashCount,
                   prevScan, seenReasons, dashVars, normVars, envVars,
                   monitorVars>>

\* the callback of the setTimeout in triggerCrashFromError
CooldownFire ==
    /\ cooldownTimers # <<>>
    /\ Head(cooldownTimers) <= now
    /\ cooldownTimers' = Tail(cooldownTimers)
    /\ crashTriggered' = FALSE
    /\ recentCriticalErrors' = <<>>
    /\ lastOp' = "cooldown"
    /\ posted' = <<>>
    /\ hostException' = FALSE
    /\ UNCHANGED <<heap, now, localErrors, lastDOMCrashReason, lastDomReported, xhr, lastScan,
                   inserted, steps, lastCrashAt, lastErrorCrashAt, crashCount,
                   prevScan,
                   seenReasons, dashVars, normVars, envVars, monitorVars>>


(***************************************************************************)
(* Entries and ring buffers.                                               *)
(***************************************************************************)
\* the fields of a captured entry that the agent or the dashboard reads;
\* seq numbers the pushes into one buffer (history, not a field of the code)
BaseEntry ==
    [type |-> "", errorType |-> "", message |-> <<>>, stack |-> <<>>,
     componentStack |-> <<>>, timestamp |-> 0, url |-> "", status |-> -1,
     isError |-> FALSE, seq |-> 0]

\* buf.push(e); if (buf.length > cap) buf.shift();
PushShift(buf, e, cap) ==
    LET b == Append(buf, e) IN IF Len(b) > cap THEN Tail(b) ELSE b

\* buf.push(e);
PushOnly(buf, e) == Append(buf, e)

getCurrentStack == <<"at caller (page.js:1:1)">>
PageUrl == "https://app.example/"

\* the detector left alone
NoCheck ==
    [crashTriggered |-> crashTriggered,
     recentCriticalErrors |-> recentCriticalErrors,
     cooldownTimers |-> cooldownTimers,
     posted |-> <<>>]

\* (mutant) the handler evaluating the detector before it sends its entry
AgentStep_DetectorFirst(op, le, ins, det, msgs, exc, x) ==
    LET escaped == SendEscaped(msgs)
        d == IF escaped THEN NoCheck ELSE det
    IN  /\ localErrors' = le
        /\ inserted' = ins
        /\ recentCriticalErrors' = d.recentCriticalErrors
        /\ crashTriggered' = d.crashTriggered
        /\ cooldownTimers' = d.cooldownTimers
        /\ posted' = Delivered(d.posted \o msgs)
        /\ lastOp' = op
        /\ hostException' = (exc \/ escaped)
        /\ xhr' = x
        /\ steps' = steps + 1
        /\ lastCrashAt' = IF d.posted # <<>> THEN now ELSE lastCrashAt
        /\ lastErrorCrashAt' = IF d.posted # <<>> THEN now ELSE lastErrorCrashAt
        /\ crashCount' = IF d.posted # <<>>
                         THEN [crashCount EXCEPT !.error_based = @ + 1]
                         ELSE crashCount
        /\ UNCHANGED <<heap, now, lastDOMCrashReason, lastDomReported, lastScan, prevScan,
                       seenReasons, dashVars, normVars, envVars, monitorVars>>

\* the state a handler of the capture script leaves: buffers le, push history
\* ins, detector state det, messages msgs sent before the detector ran; an
\* exception leaving a send would end the handler there, after its push
AgentStep(op, le, ins, det, msgs, exc, x) ==
    LET escaped == SendEscaped(msgs)
        d == IF escaped THEN NoCheck ELSE det
    IN  /\ localErrors' = le
        /\ inserted' = ins
        /\ recentCriticalErrors' = d.recentCriticalErrors
        /\ crashTriggered' = d.crashTriggered
        /\ cooldownTimers' = d.cooldownTimers
        /\ posted' = Delivered(msgs \o d.posted)
        /\ lastOp' = op
        /\ hostException' = (exc \/ escaped)
        /\ xhr' = x
        /\ steps' = steps + 1
        /\ lastCrashAt' = IF d.posted # <<>> THEN now ELSE lastCrashAt
        /\ lastErrorCrashAt' = IF d.posted # <<>> THEN now ELSE lastErrorCrashAt
        /\ crashCount' = IF d.posted # <<>>
                         THEN [crashCount EXCEPT !.error_based = @ + 1]
                         ELSE crashCount
        /\ UNCHANGED <<heap, now, lastDOMCrashReason, lastDomReported, lastScan, prevScan,
                       seenReasons, dashVars, normVars, envVars, monitorVars>>

\* a handler that threw before it changed anything
AgentThrew(op) ==
    AgentStep(op, localErrors, inserted, NoCheck, <<>>, TRUE, xhr)

(***************************************************************************)
(* 1. console.error                                                        *)
(***************************************************************************)
\* errorInfos.find((e) => e.stack) || errorInfos[0] || {}
PrimaryInfo(infos) ==
    IF \E i \in 1..Len(infos) : infos[i].stack # <<>>
    THEN infos[CHOOSE i \in 1..Len(infos) :
                   /\ infos[i].stack # <<>>
                   /\ \A j \in 1..(i - 1) : infos[j].stack = <<>>]
    ELSE IF Len(infos) > 0 THEN infos[1] ELSE NoInfo

\* the entry of console.error(...args) at time t, as push number n
ConsoleErrorEntry(h, args, t, n) ==
    LET infos == [i \in 1..Len(args) |-> extractErrorInfo(h, args[i], 0)]
        primaryError == PrimaryInfo(infos)
    IN  [BaseEntry EXCEPT
           !.type = "console.error",
           !.errorType = OrStr(primaryError.type, "console.error"),
           !.message = formatArgs(h, args),
           !.stack = OrSeq(primaryError.stack, getCurrentStack),
           !.componentStack = primaryError.componentStack,
           !.timestamp = t,
           !.url = PageUrl,
           !.seq = n]

ConsoleError(args) ==
    LET infos == [i \in 1..Len(args) |-> extractErrorInfo(heap, args[i], 0)]
        entry == ConsoleErrorEntry(heap, args, now, Len(inserted.console) + 1)
        le == [localErrors EXCEPT
                 !.console = PushShift(localErrors.console, entry, ConsoleCap)]
        ins == [inserted EXCEPT !.console = Append(inserted.console, entry)]
    IN  IF \E i \in 1..Len(infos) : infos[i].threw
        THEN AgentThrew("console.error")
        ELSE AgentStep("console.error", le, ins,
                       checkForErrorBasedCrash(entry, le),
                       <<sendToContentScript("console_error", entry)>>,
                       FALSE, xhr)

(***************************************************************************)
(* 2. console.warn                                                         *)
(***************************************************************************)
ArgsThrow(args) ==
    \E i \in 1..Len(args) : extractErrorInfo(heap, args[i], 0).threw

\* the entry console.warn builds at time t, as push number n
WarnEntry(h, args, t, n) ==
    [BaseEntry EXCEPT
       !.type = "console.warn",
       !.errorType = "Warning",
       !.message = formatArgs(h, args),
       !.stack = getCurrentStack,
       !.timestamp = t,
       !.url = PageUrl,
       !.seq = n]

ConsoleWarn(args) ==
    LET entry == WarnEntry(heap, args, now, Len(inserted.console) + 1)
        le == [localErrors EXCEPT
                 !.console = PushShift(localErrors.console, entry, ConsoleCap)]
        ins == [inserted EXCEPT !.console = Append(inserted.console, entry)]
    IN  IF ArgsThrow(args)
        THEN AgentThrew("console.warn")
        ELSE AgentStep("console.warn", le, ins, NoCheck,
                       <<sendToContentScript("console_warn", entry)>>,
                       FALSE, xhr)

(***************************************************************************)
(* 3. console.assert                                                       *)
(***************************************************************************)
ConsoleAssert(condition, args) ==
    LET entry == [BaseEntry EXCEPT
                    !.type = "console.assert",
                    !.errorType = "AssertionError",
                    !.message = IF Len(args) > 0 THEN formatArgs(heap, args)
                                ELSE <<"Assertion failed">>,
                    !.stack = getCurrentStack,
                    !.timestamp = now,
                    !.url = PageUrl,
                    !.seq = Len(inserted.console) + 1]
        le == [localErrors EXCEPT !.console = PushOnly(localErrors.console, entry)]
        ins == [inserted EXCEPT !.console = Append(inserted.console, entry)]
    IN  IF condition
        THEN AgentStep("console.assert", localErrors, inserted, NoCheck, <<>>,
                       FALSE, xhr)
        ELSE IF ArgsThrow(args)
        THEN AgentThrew("console.assert")
        ELSE AgentStep("console.assert", le, ins, NoCheck,
                       <<sendToContentScript("console_error", entry)>>,
                       FALSE, xhr)

(***************************************************************************)
(* 4. window "error": e.error is the reference err (0: none), e.message    *)
(* is evMessage                                                            *)
(***************************************************************************)
\* errorInfo of the "error" listener
WindowErrorInfo(h, err, evMessage) ==
    IF Truthy(h, err) THEN extractErrorInfo(h, err, 0)
    ELSE IF evMessage # <<>>
    THEN [NoInfo EXCEPT !.type = "Error", !.message = evMessage]
    ELSE [NoInfo EXCEPT !.type = "Error", !.message = <<"Unknown error">>]

\* the entry the "error" listener builds at time t, as push number n
WindowErrorEntry(h, err, evMessage, t, n) ==
    LET errorInfo == WindowErrorInfo(h, err, evMessage)
        e_stack == IF err # 0 /\ h[err].tag \notin {"null", "undefined"}
                   THEN h[err].stack ELSE <<>>
    IN  [BaseEntry EXCEPT
           !.type = "uncaught_error",
           !.errorType = OrStr(errorInfo.type, "Error"),
           !.message = OrSeq(errorInfo.message,
                             OrSeq(evMessage, <<"Unknown error">>)),
           !.stack = OrSeq(errorInfo.stack, e_stack),
           !.componentStack = errorInfo.componentStack,
           !.timestamp = t,
           !.url = PageUrl,
           !.seq = n]

WindowError(err, evMessage) ==
    LET errorInfo == WindowErrorInfo(heap, err, evMessage)
        entry == WindowErrorEntry(heap, err, evMessage, now, Len(inserted.page) + 1)
        le == [localErrors EXCEPT
                 !.page = PushShift(localErrors.page, entry, PageCap)]
        ins == [inserted EXCEPT !.page = Append(inserted.page, entry)]
    IN  IF errorInfo.threw
        THEN AgentThrew("uncaught_error")
        ELSE AgentStep("uncaught_error", le, ins,
                       checkForErrorBasedCrash(entry, le),
                       <<sendToContentScript("page_error", entry)>>,
                       FALSE, xhr)

(***************************************************************************)
(* 5. "unhandledrejection": e.reason is the reference reason               *)
(***************************************************************************)
\* typeof v === "object"
TypeofObject(v) == v.tag \in {"null", "Error", "ErrorEvent", "DOMException", "object"}

UnhandledRejection(reason) ==
    LET errorInfo == extractErrorInfo(heap, reason, 0)
        entry == [BaseEntry EXCEPT
                    !.type = "unhandled_rejection",
                    !.errorType = OrStr(errorInfo.type, "PromiseRejection"),
                    !.message = OrSeq(errorInfo.message, <<"Promise rejected">>),
                    !.stack = errorInfo.stack,
                    !.componentStack = errorInfo.componentStack,
                    !.timestamp = now,
                    !.url = PageUrl,
                    !.seq = Len(inserted.page) + 1]
        le == [localErrors EXCEPT
                 !.page = PushShift(localErrors.page, entry, PageCap)]
        ins == [inserted EXCEPT !.page = Append(inserted.page, entry)]
    IN  IF errorInfo.threw
           \/ (TypeofObject(heap[reason]) /\ heap[reason].jsonThrows)
        THEN AgentThrew("unhandled_rejection")
        ELSE AgentStep("unhandled_rejection", le, ins,
                       checkForErrorBasedCrash(entry, le),
                       <<sendToContentScript("promise_rejection", entry)>>,
                       FALSE, xhr)


(***************************************************************************)
(* 6. XMLHttpRequest: send() registers the three listeners; the browser    *)
(* fires "error" or "timeout" and then "loadend" (status 0) on a failed    *)
(* request, "loadend" alone on a completed or aborted one.                 *)
(***************************************************************************)
ApiUrl == "/api/orders"

XhrSend ==
    /\ xhr = "idle"
    /\ xhr' = "sent"
    /\ lastOp' = "xhr.send"
    /\ posted' = <<>>
    /\ hostException' = FALSE
    /\ UNCHANGED <<heap, now, localErrors, recentCriticalErrors, crashTriggered,
                   cooldownTimers, lastDOMCrashReason, lastDomReported, lastScan, inserted, steps,
                   lastCrashAt, lastErrorCrashAt, crashCount,
                   prevScan, seenReasons,
                   dashVars, normVars, envVars, monitorVars>>

\* the entry pushed to localErrors.api: seq numbers that buffer's pushes
ApiErrorEntry(entry) == [entry EXCEPT !.seq = Len(inserted.api) + 1]

\* the "loadend" listener with xhr.status = status
LoadendListener(status) ==
    LET entry == [BaseEntry EXCEPT
                    !.type = "xhr",
                    !.url = ApiUrl,
                    !.status = status,
                    !.isError = (status = 0 \/ status >= 400),
                    !.timestamp = now,
                    !.seq = Len(inserted.apiRequests) + 1]
        errorEntry == ApiErrorEntry(entry)
        le1 == [localErrors EXCEPT
                  !.apiRequests = PushShift(localErrors.apiRequests, entry,
                                            ApiRequestsCap)]
        ins1 == [inserted EXCEPT !.apiRequests = Append(inserted.apiRequests, entry)]
    IN  IF entry.isError
        THEN AgentStep("xhr.loadend",
                       [le1 EXCEPT !.api = PushShift(localErrors.api, errorEntry, ApiCap)],
                       [ins1 EXCEPT !.api = Append(inserted.api, errorEntry)],
                       NoCheck,
                       <<sendToContentScript("api_request", entry),
                         sendToContentScript("api_error", errorEntry)>>,
                       FALSE, "idle")
        ELSE AgentStep("xhr.loadend", le1, ins1, NoCheck,
                       <<sendToContentScript("api_request", entry)>>,
                       FALSE, "idle")

XhrLoadend(status) ==
    /\ \/ xhr = "sent"
       \/ xhr = "failed" /\ status = 0
    /\ LoadendListener(status)

\* the "error" (xhr_network_error) and "timeout" (xhr_timeout) listeners
FailureListener(op, type) ==
    LET entry == [BaseEntry EXCEPT
                    !.type = type,
                    !.url = ApiUrl,
                    !.status = 0,
                    !.isError = TRUE,
                    !.timestamp = now,
                    !.seq = Len(inserted.api) + 1]
    IN  AgentStep(op,
                  [localErrors EXCEPT !.api = PushOnly(localErrors.api, entry)],
                  [inserted EXCEPT !.api = Append(inserted.api, entry)],
                  NoCheck,
                  <<sendToContentScript("api_error", entry)>>,
                  FALSE, "failed")

XhrError ==
    /\ xhr = "sent"
    /\ FailureListener("xhr.error", "xhr_network_error")

XhrTimeout ==
    /\ xhr = "sent"
    /\ FailureListener("xhr.timeout", "xhr_timeout")

(***************************************************************************)
(* 7. fetch: the part of the wrapper after the awaits                      *)
(***************************************************************************)
\* (mutant) response.ok without its upper bound
ResponseOk_NoUpperBound(status) == status >= 200

\* response.ok
ResponseOk(status) == status >= 200 /\ status <= 299

\* the entry of a resolved fetch at time t, as push number n
FetchEntry(status, t, n) ==
    [BaseEntry EXCEPT
       !.type = "fetch",
       !.url = ApiUrl,
       !.status = status,
       !.isError = ~ResponseOk(status),
       !.timestamp = t,
       !.seq = n]

FetchResolved(status) ==
    LET entry == FetchEntry(status, now, Len(inserted.apiRequests) + 1)
        errorEntry == ApiErrorEntry(entry)
        le1 == [localErrors EXCEPT
                  !.apiRequests = PushShift(localErrors.apiRequests, entry,
                                            ApiRequestsCap)]
        ins1 == [inserted EXCEPT !.apiRequests = Append(inserted.apiRequests, entry)]
    IN  IF ~ResponseOk(status)
        THEN AgentStep("fetch",
                       [le1 EXCEPT !.api = PushShift(localErrors.api, errorEntry, ApiCap)],
                       [ins1 EXCEPT !.api = Append(inserted.api, errorEntry)],
                       NoCheck,
                       <<sendToContentScript("api_request", entry),
                         sendToContentScript("api_error", errorEntry)>>,
                       FALSE, xhr)
        ELSE AgentStep("fetch", le1, ins1, NoCheck,
                       <<sendToContentScript("api_request", entry)>>,
                       FALSE, xhr)

\* the catch branch: _fetch rejected with err; the wrapper rethrows err
\* the entry of a rejected fetch at time t, as push number n
FetchErrorEntry(h, err, t, n) ==
    [BaseEntry EXCEPT
       !.type = "fetch_error",
       !.url = ApiUrl,
       !.status = 0,
       !.errorType = h[err].name,
       !.message = h[err].message,
       !.isError = TRUE,
       !.timestamp = t,
       !.seq = n]

\* (mutant) the catch branch feeding its entry to the signal detector
FetchRejected_Fed(err) ==
    LET entry == FetchErrorEntry(heap, err, now, Len(inserted.api) + 1)
        le == [localErrors EXCEPT !.api = PushOnly(localErrors.api, entry)]
    IN  AgentStep("fetch.catch", le,
                  [inserted EXCEPT !.api = Append(inserted.api, entry)],
                  checkForErrorBasedCrash(entry, le),
                  <<sendToContentScript("api_error", entry)>>,
                  FALSE, xhr)

FetchRejected(err) ==
    LET entry == FetchErrorEntry(heap, err, now, Len(inserted.api) + 1)
    IN  AgentStep("fetch.catch",
                  [localErrors EXCEPT !.api = PushOnly(localErrors.api, entry)],
                  [inserted EXCEPT !.api = Append(inserted.api, entry)],
                  NoCheck,
                  <<sendToContentScript("api_error", entry)>>,
                  FALSE, xhr)

(***************************************************************************)
(* 8. DOM-based crash detection.  dom[i] says what document.querySelector  *)
(* finds for CRASH_SELECTORS[i]: nothing, a hidden element, a visible one  *)
(* with fewer than 5 characters of text, or a visible one with more.       *)
(***************************************************************************)
CRASH_SELECTORS ==
    << "[class*=error-page]", "[class*=error-screen]", "[class*=crash]",
       "[class*=something-went-wrong]", "[data-testid*=error]", ".error-boundary",
       "[class*=fatal-error]", "[class*=app-error]", "[class*=server-error]",
       "[class*=ErrorBoundary]", "[role=alert][class*=error]" >>

\* the selectors whose elements the model varies; the others match nothing
NumSelectors == 2
ElementStates == {"absent", "hidden", "short", "shown"}
DomStates == [1..NumSelectors -> ElementStates]

NoCrash == [detected |-> FALSE, reason |-> <<>>]

detectDOMCrash(dom) ==
    IF \E i \in DOMAIN dom : dom[i] = "shown"
    THEN LET i == CHOOSE k \in DOMAIN dom :
                      /\ dom[k] = "shown"
                      /\ \A j \in DOMAIN dom : j < k => dom[j] # "shown"
         IN  [detected |-> TRUE, reason |-> <<"Element: ", CRASH_SELECTORS[i]>>]
    ELSE NoCrash

DomCrashMessage(crash) ==
    sendToContentScript("crash_detected",
        [type |-> "crash", detected |-> TRUE, reason |-> crash.reason,
         detectionMethod |-> "dom_based",
         recentConsoleErrors |-> SliceTail(localErrors.console, ConsoleTail),
         recentPageErrors |-> SliceTail(localErrors.page, PageTail),
         recentApiErrors |-> SliceTail(localErrors.api, ApiTail),
         recentApiRequests |-> SliceTail(localErrors.apiRequests, ApiRequestsTail),
         timestamp |-> now])

\* (mutant) the DOM check without the test of the latch
DomCheck_IgnoresLatch(dom) ==
    LET crash == detectDOMCrash(dom) IN
    IF crash.detected /\ crash.reason # lastDOMCrashReason
    THEN [lastDOMCrashReason |-> crash.reason,
          posted |-> <<DomCrashMessage(crash)>>]
    ELSE [lastDOMCrashReason |-> lastDOMCrashReason, posted |-> <<>>]

\* (mutant) the DOM check that never remembers the reason it reported
DomCheck_ForgetsReason(dom) ==
    LET crash == detectDOMCrash(dom) IN
    IF crash.detected /\ crash.reason # lastDOMCrashReason
    THEN [lastDOMCrashReason |-> lastDOMCrashReason,
          posted |-> IF ~crashTriggered THEN <<DomCrashMessage(crash)>> ELSE <<>>]
    ELSE [lastDOMCrashReason |-> lastDOMCrashReason, posted |-> <<>>]

\* (mutant) the DOM detector reporting only once errors have been captured
DomCheck_NeedsCapturedErrors(dom) ==
    LET crash == detectDOMCrash(dom) IN
    IF crash.detected /\ crash.reason # lastDOMCrashReason
    THEN [lastDOMCrashReason |-> crash.reason,
          posted |-> IF ~crashTriggered /\ localErrors.console # <<>>
                     THEN <<DomCrashMessage(crash)>> ELSE <<>>]
    ELSE [lastDOMCrashReason |-> lastDOMCrashReason, posted |-> <<>>]

\* checkForDOMCrash on the document dom: the reason it remembers and the
\* messages it sends
DomCheck(dom) ==
    LET crash == detectDOMCrash(dom) IN
    IF crash.detected /\ crash.reason # lastDOMCrashReason
    THEN [lastDOMCrashReason |-> crash.reason,
          posted |-> IF ~crashTriggered THEN <<DomCrashMessage(crash)>> ELSE <<>>]
    ELSE [lastDOMCrashReason |-> lastDOMCrashReason, posted |-> <<>>]

\* a run of checkForDOMCrash on the document dom, whoever called it
checkForDOMCrashCall(dom) ==
    LET r == DomCheck(dom)
        crash == detectDOMCrash(dom)
    IN  /\ lastDOMCrashReason' = r.lastDOMCrashReason
        /\ posted' = Delivered(r.posted)
        /\ lastOp' = "checkForDOMCrash"
        /\ hostException' = FALSE
        /\ prevScan' = lastScan
        /\ lastScan' = crash.reason
        /\ seenReasons' = IF crash.detected THEN seenReasons \cup {crash.reason}
                          ELSE seenReasons
        /\ steps' = steps + 1
        /\ lastCrashAt' = IF r.posted # <<>> THEN now ELSE lastCrashAt
        /\ lastDomReported' = IF r.posted # <<>> THEN crash.reason
                              ELSE lastDomReported
        /\ crashCount' = IF r.posted # <<>>
                         THEN [crashCount EXCEPT !.dom_based = @ + 1]
                         ELSE crashCount
        /\ UNCHANGED <<heap, now, localErrors, recentCriticalErrors,
                       crashTriggered, cooldownTimers, xhr, inserted,
                       lastErrorCrashAt, dashVars, normVars, envVars>>

\* a scan of the document, the timers of the monitor left as they are
checkForDOMCrash(dom) ==
    checkForDOMCrashCall(dom) /\ UNCHANGED monitorVars

(***************************************************************************)
(* setupCrashMonitor: three scans at fixed delays, and an observer whose   *)
(* callback replaces the pending debounced scan.  A timer runs when the    *)
(* clock reaches its due time; the clock does not pass a due timer.        *)
(***************************************************************************)
MaxMutations == 3
ScanTickMs == 50
MaxScanTime == 300

DebounceMs == 100
SetupDelays == {500, 2000, 5000}

\* (mutant) the callback without its clearTimeout
Reschedule_NoClear(timers, handle, id) ==
    Append(timers, [id |-> id, due |-> now + DebounceMs])

\* clearTimeout(window.__l2CrashTimeout); setTimeout(checkForDOMCrash, 100)
Reschedule(timers, handle, id) ==
    Append(SelectSeq(timers, LAMBDA t : t.id # handle),
           [id |-> id, due |-> now + DebounceMs])

\* the documents the scans of the monitor find
MonitorDoms ==
    {[i \in 1..NumSelectors |-> "absent"],
     [i \in 1..NumSelectors |-> IF i = 1 THEN "shown" ELSE "absent"]}

\* the callback of the MutationObserver
Mutation ==
    /\ mutations < MaxMutations
    /\ now <= MaxScanTime
    /\ scanTimers' = Reschedule(scanTimers, crashTimeout, mutations + 1)
    /\ crashTimeout' = mutations + 1
    /\ mutations' = mutations + 1
    /\ lastMutationAt' = now
    /\ checksSinceMutation' = 0
    /\ lastOp' = "mutation"
    /\ posted' = <<>>
    /\ hostException' = FALSE
    /\ UNCHANGED <<heap, now, localErrors, recentCriticalErrors, crashTriggered,
                   cooldownTimers, lastDOMCrashReason, lastDomReported, xhr, lastScan, inserted,
                   steps, lastCrashAt, lastErrorCrashAt, crashCount, prevScan,
                   seenReasons, dashVars, normVars, envVars, setupTimers>>

\* a timer of the observer runs checkForDOMCrash
DebouncedScan ==
    \E i \in 1..Len(scanTimers) :
       /\ scanTimers[i].due <= now
       /\ scanTimers' = SubSeq(scanTimers, 1, i - 1)
                         \o SubSeq(scanTimers, i + 1, Len(scanTimers))
       /\ checksSinceMutation' = checksSinceMutation + 1
       /\ \E dom \in MonitorDoms : checkForDOMCrashCall(dom)
       /\ UNCHANGED <<setupTimers, crashTimeout, mutations, lastMutationAt>>

\* one of the three timers of setupCrashMonitor runs checkForDOMCrash
SetupScan ==
    \E d \in setupTimers :
       /\ d <= now
       /\ setupTimers' = setupTimers \ {d}
       /\ \E dom \in MonitorDoms : checkForDOMCrashCall(dom)
       /\ UNCHANGED <<scanTimers, crashTimeout, mutations, lastMutationAt,
                      checksSinceMutation>>

\* the due times of the pending timers of the monitor
MonitorDue == setupTimers \cup {scanTimers[i].due : i \in 1..Len(scanTimers)}

\* time passes up to the next due timer; past MaxScanTime nothing but timers
\* is left to happen and the clock goes straight to the next one
ScanTick ==
    /\ \A d \in MonitorDue : d > now
    /\ now < MaxScanTime \/ MonitorDue # {}
    /\ now' = LET next == IF now >= MaxScanTime THEN now ELSE now + ScanTickMs
                  due == {d \in MonitorDue : next = now \/ d < next}
              IN  IF due # {} THEN CHOOSE d \in due : \A e \in due : d <= e
                  ELSE next
    /\ lastOp' = "tick"
    /\ posted' = <<>>
    /\ hostException' = FALSE
    /\ UNCHANGED <<heap, localErrors, recentCriticalErrors, crashTriggered,
                   cooldownTimers, lastDOMCrashReason, lastDomReported, xhr, lastScan, inserted,
                   steps, lastCrashAt, lastErrorCrashAt, crashCount,
                   prevScan, seenReasons, dashVars, normVars, envVars,
                   monitorVars>>

(***************************************************************************)
(* Time.                                                                   *)
(***************************************************************************)
Tick ==
    /\ \/ now < MaxTime
       \/ cooldownTimers # <<>> /\ now < Head(cooldownTimers)
    /\ now' = now + TickMs
    /\ lastOp' = "tick"
    /\ posted' = <<>>
    /\ hostException' = FALSE
    /\ UNCHANGED <<heap, localErrors, recentCriticalErrors, crashTriggered,
                   cooldownTimers, lastDOMCrashReason, lastDomReported, xhr, lastScan, inserted,
                   steps, lastCrashAt, lastErrorCrashAt, crashCount,
                   prevScan, seenReasons,
                   dashVars, normVars, envVars, monitorVars>>


(***************************************************************************)
(* Popup dashboard: mergePageData.  A snapshot holds a sequence per        *)
(* category; absent names the categories that are undefined in it.         *)
(***************************************************************************)
Categories == <<"consoleErrors", "pageErrors", "apiErrors", "crashes">>

\* (mutant) the test comparing timestamps only, whatever the category
SameKey_TimestampOnly(cat, e, err) == e.timestamp = err.timestamp

\* the test inside find() for each category
SameKey(cat, e, err) ==
    IF cat = "consoleErrors"
    THEN e.timestamp = err.timestamp /\ e.message = err.message
    ELSE IF cat = "apiErrors"
    THEN e.timestamp = err.timestamp /\ e.url = err.url
    ELSE e.timestamp = err.timestamp

\* (mutant) the merge without the duplicate test
MergeCategory_NoDedup(cat, base, incoming) == base \o incoming

\* (mutant) the merge that puts new elements in front
RECURSIVE MergeCategory_Unshift(_, _, _)
MergeCategory_Unshift(cat, base, incoming) ==
    IF incoming = <<>> THEN base
    ELSE LET err == Head(incoming) IN
         IF \E i \in 1..Len(base) : SameKey(cat, base[i], err)
         THEN MergeCategory_Unshift(cat, base, Tail(incoming))
         ELSE MergeCategory_Unshift(cat, <<err>> \o base, Tail(incoming))

\* incoming.forEach((err) => { if (!base.find(...)) base.push(err); })
RECURSIVE MergeCategory(_, _, _)
MergeCategory(cat, base, incoming) ==
    IF incoming = <<>> THEN base
    ELSE LET err == Head(incoming) IN
         IF \E i \in 1..Len(base) : SameKey(cat, base[i], err)
         THEN MergeCategory(cat, base, Tail(incoming))
         ELSE MergeCategory(cat, Append(base, err), Tail(incoming))

\* category cat of d after the merge of pd
Merged(cat, d, pd) ==
    IF cat \in pd.absent THEN d[cat] ELSE MergeCategory(cat, d[cat], pd[cat])

mergePageData(d, pd) ==
    [consoleErrors |-> Merged("consoleErrors", d, pd),
     pageErrors |-> Merged("pageErrors", d, pd),
     apiErrors |-> Merged("apiErrors", d, pd),
     crashes |-> Merged("crashes", d, pd),
     apiRequests |-> d.apiRequests,
     absent |-> IF Merged("pageErrors", d, pd) # <<>>
                THEN d.absent \ {"pageErrors"} ELSE d.absent]

MaxMerges == 2

\* loadErrors reaching mergePageData(pageResponse.data)
MergePageData ==
    /\ merges < MaxMerges
    /\ data' = mergePageData(data, pageData)
    /\ merges' = merges + 1
    /\ mergeOnce' = IF merges = 0 THEN mergePageData(data, pageData) ELSE mergeOnce
    /\ UNCHANGED <<heap, agentVars, pageData, mergeBase, popupVars, normVars,
                   envVars, monitorVars>>

(***************************************************************************)
(* extractErrorInfo called on a value of the page.                         *)
(***************************************************************************)
Normalize ==
    /\ normResult = <<>>
    /\ normResult' = <<extractErrorInfo(heap, normArg, 0)>>
    /\ UNCHANGED <<heap, agentVars, dashVars, normArg, envVars, monitorVars>>


(***************************************************************************)
(* Initial states.                                                         *)
(***************************************************************************)
EmptyBuffers == [console |-> <<>>, page |-> <<>>, api |-> <<>>, apiRequests |-> <<>>]
EmptyData ==
    [consoleErrors |-> <<>>, pageErrors |-> <<>>, apiErrors |-> <<>>,
     crashes |-> <<>>, apiRequests |-> <<>>, absent |-> {}]

\* the popup before any of its handlers has run
PopupIdle ==
    /\ stored = EmptyData
    /\ pageStore = EmptyData
    /\ loadPc = "idle"
    /\ loadResp = EmptyData
    /\ clearPc = "idle"
    /\ freshClear = FALSE
    /\ currentTab = "crashes"
    /\ displayed = <<>>

\* the capture script once injected, with buffers le filled at time t
AgentStarts(le, t) ==
    /\ now = t
    /\ localErrors = le
    /\ inserted = le
    /\ recentCriticalErrors = <<>>
    /\ crashTriggered = FALSE
    /\ cooldownTimers = <<>>
    /\ lastDOMCrashReason = <<>>
    /\ lastDomReported = <<>>
    /\ xhr = "idle"
    /\ lastOp = "init"
    /\ posted = <<>>
    /\ hostException = FALSE
    /\ postMessageThrows = FALSE
    /\ setupTimers = {d \in SetupDelays : d > now}
    /\ scanTimers = <<>>
    /\ crashTimeout = 0
    /\ mutations = 0
    /\ lastMutationAt = -1
    /\ checksSinceMutation = 0
    /\ lastScan = <<>>
    /\ prevScan = <<>>
    /\ seenReasons = {}
    /\ steps = 0
    /\ lastCrashAt = -1
    /\ lastErrorCrashAt = -1
    /\ crashCount = [error_based |-> 0, dom_based |-> 0]

DashIdle ==
    /\ PopupIdle
    /\ data = EmptyData
    /\ pageData = EmptyData
    /\ mergeBase = EmptyData
    /\ mergeOnce = EmptyData
    /\ merges = 0

NormIdle ==
    /\ normArg = 1
    /\ normResult = <<>>

Init ==
    /\ heap = SampleHeap
    /\ AgentStarts(EmptyBuffers, 0)
    /\ DashIdle
    /\ NormIdle

(***************************************************************************)
(* The capture script from its start: the detectors and the clock.         *)
(***************************************************************************)
ConsoleErrorArgs == {<<1>>, <<2>>, <<4>>}
WindowErrorArgs == {<<3, <<"Uncaught ReferenceError: x is not defined">> >>,
                    <<8, <<"Uncaught ReferenceError: Cannot access 'x'">> >>}
RejectionArgs == {5, 6}

Next ==
    \/ \E args \in ConsoleErrorArgs : steps < MaxEvents /\ ConsoleError(args)
    \/ \E a \in WindowErrorArgs : steps < MaxEvents /\ WindowError(a[1], a[2])
    \/ \E r \in RejectionArgs : steps < MaxEvents /\ UnhandledRejection(r)
    \/ \E dom \in DomStates : steps < MaxEvents /\ checkForDOMCrash(dom)
    \/ CooldownFire
    \/ Tick

Spec == Init /\ [][Next]_vars

\* the same handlers, the timer callback running once it is due and time
\* passing
NextLatch ==
    \/ \E args \in ConsoleErrorArgs : steps < MaxLatchEvents /\ ConsoleError(args)
    \/ \E a \in WindowErrorArgs : steps < MaxLatchEvents /\ WindowError(a[1], a[2])
    \/ \E r \in RejectionArgs : steps < MaxLatchEvents /\ UnhandledRejection(r)
    \/ \E dom \in DomStates : steps < MaxLatchEvents /\ checkForDOMCrash(dom)
    \/ CooldownFire
    \/ Tick

FairSpec ==
    Init /\ [][NextLatch]_vars /\ WF_vars(CooldownFire) /\ WF_vars(Tick)


(***************************************************************************)
(* The capture script near the capacity of a buffer.  The initial states   *)
(* are the fresh script and, for each buffer, the script after n calls of  *)
(* one handler that feeds it (one call per millisecond), n being FillGap   *)
(* short of the buffer's capacity: console.warn("boom"), an uncaught       *)
(* throw "boom", a rejected fetch, a fetch answered 200.                   *)
(***************************************************************************)
Filled(which, n) ==
    [console |-> IF which = "console"
                 THEN [i \in 1..n |-> WarnEntry(SampleHeap, <<1>>, i, i)] ELSE <<>>,
     page |-> IF which = "page"
              THEN [i \in 1..n |-> WindowErrorEntry(SampleHeap, 1, <<"Uncaught boom">>, i, i)]
              ELSE <<>>,
     api |-> IF which = "api"
             THEN [i \in 1..n |-> FetchErrorEntry(SampleHeap, 7, i, i)] ELSE <<>>,
     apiRequests |-> IF which = "apiRequests"
                     THEN [i \in 1..n |-> FetchEntry(200, i, i)] ELSE <<>>]

Capacity ==
    [console |-> ConsoleCap, page |-> PageCap, api |-> ApiCap,
     apiRequests |-> ApiRequestsCap]
BufferNames == {"console", "page", "api", "apiRequests"}

InitBuf ==
    /\ heap = SampleHeap
    /\ \/ AgentStarts(EmptyBuffers, 0)
       \/ \E which \in BufferNames :
             AgentStarts(Filled(which, Capacity[which] - FillGap),
                         Capacity[which] - FillGap)
    /\ DashIdle
    /\ NormIdle

Statuses == {200, 304, 503}
AssertArgs == {<<FALSE, <<1>> >>, <<FALSE, <<>> >>, <<TRUE, <<1>> >>}
BufWindowErrorArgs == {<<1, <<"Uncaught boom">> >>, <<0, <<"Script error.">> >>}

NextBuf ==
    \/ steps < MaxBufEvents /\ ConsoleError(<<1>>)
    \/ steps < MaxBufEvents /\ ConsoleWarn(<<1>>)
    \/ \E a \in AssertArgs : steps < MaxBufEvents /\ ConsoleAssert(a[1], a[2])
    \/ \E a \in BufWindowErrorArgs : steps < MaxBufEvents /\ WindowError(a[1], a[2])
    \/ steps < MaxBufEvents /\ UnhandledRejection(1)
    \/ XhrSend
    \/ \E st \in Statuses \cup {0} : steps < MaxBufEvents /\ XhrLoadend(st)
    \/ steps < MaxBufEvents /\ XhrError
    \/ steps < MaxBufEvents /\ XhrTimeout
    \/ \E st \in Statuses : steps < MaxBufEvents /\ FetchResolved(st)
    \/ steps < MaxBufEvents /\ FetchRejected(7)

SpecBuf == InitBuf /\ [][NextBuf]_vars

\* C1: in every reachable state each buffer holds at most its capacity:
\* console 100, page 50, api 100, apiRequests 200.
BuffersWithinCapacity ==
    \A b \in BufferNames : Len(localErrors[b]) <= Capacity[b]

\* C2: once more than its capacity has been pushed into a buffer, it holds
\* exactly the last capacity-many pushed entries, in push order.
BufferHoldsLastPushed ==
    \A b \in BufferNames :
        Len(inserted[b]) > Capacity[b]
            => localErrors[b] = SliceTail(inserted[b], Capacity[b])


(***************************************************************************)
(* What a step sent.                                                       *)
(***************************************************************************)
IsCrash(m, method) ==
    m.type = "crash_detected" /\ m.data.detectionMethod = method
CrashesIn(p, method) == {i \in 1..Len(p) : IsCrash(p[i], method)}
AnyCrashIn(p) == \E i \in 1..Len(p) : p[i].type = "crash_detected"

\* the handlers that call checkForErrorBasedCrash
DetectorOps == {"console.error", "uncaught_error", "unhandled_rejection"}
\* the step ran such a handler to its end; its entry is the first message
Fed(op, p, exc) == op \in DetectorOps /\ ~exc /\ Len(p) >= 1

\* C3: an error_based CrashEvent is never followed by another one less than
\* 10000 ms later, whatever entries arrive; no step sends two; the critical
\* entry that brings the window of the unlatched detector to 3 sends one.
ErrorCrashesCooldownApart ==
    [][ /\ Cardinality(CrashesIn(posted', "error_based")) <= 1
        /\ (CrashesIn(posted', "error_based") # {} /\ lastErrorCrashAt >= 0)
              => now' >= lastErrorCrashAt + CooldownMs
        /\ ( /\ ~crashTriggered
             /\ Fed(lastOp', posted', hostException')
             /\ isCriticalError(posted'[1].data.errorType, posted'[1].data.message)
             /\ Len(recentCriticalErrors') >= 3 )
              => Cardinality(CrashesIn(posted', "error_based")) = 1 ]_vars

\* C3: a ReferenceError arrives inside the cooldown of an earlier
\* error_based CrashEvent and sends nothing but its own entry.
SuppressedInCooldown ==
    /\ crashTriggered
    /\ lastOp = "uncaught_error"
    /\ ~hostException
    /\ Len(posted) = 1
    /\ posted[1].data.errorType = "ReferenceError"
    /\ crashCount.error_based = 1
    /\ now > lastErrorCrashAt
    /\ now < lastErrorCrashAt + CooldownMs

\* C4: the latch is eventually cleared, and once it has been cleared after a
\* CrashEvent the next critical entry that satisfies the trigger rule sends
\* a new error_based CrashEvent.
LatchClearsAndRearms ==
    /\ crashTriggered ~> ~crashTriggered
    /\ [][ ( /\ ~crashTriggered
             /\ lastErrorCrashAt >= 0
             /\ Fed(lastOp', posted', hostException')
             /\ isCriticalError(posted'[1].data.errorType, posted'[1].data.message)
             /\ shouldTriggerCrash(posted'[1].data, recentCriticalErrors') )
           => CrashesIn(posted', "error_based") # {} ]_vars

\* C4: a second error_based CrashEvent has just been sent.
SecondErrorCrash ==
    /\ crashCount.error_based = 2
    /\ CrashesIn(posted, "error_based") # {}
    /\ now >= CooldownMs

\* C5 as stated: any two CrashEvents are at least 10000 ms apart.
AnyTwoCrashesCooldownApart ==
    [][ (AnyCrashIn(posted') /\ lastCrashAt >= 0)
            => now' >= lastCrashAt + CooldownMs ]_vars

\* C5 amended: a CrashEvent of either method that follows an error_based
\* CrashEvent is at least 10000 ms later than it.
CrashAfterErrorCrashCooldownApart ==
    [][ (AnyCrashIn(posted') /\ lastErrorCrashAt >= 0)
            => now' >= lastErrorCrashAt + CooldownMs ]_vars

\* C5: a dom_based CrashEvent sent after an error_based one.
DomCrashAfterErrorCrash ==
    /\ CrashesIn(posted, "dom_based") # {}
    /\ lastErrorCrashAt >= 0
    /\ now = lastErrorCrashAt + CooldownMs

\* C6: a ReferenceError entry fed to the unlatched detector sends, in the
\* same step, an error_based CrashEvent whose primaryError.message is the
\* entry's message.
ReferenceErrorCrashesAtOnce ==
    [][ ( /\ ~crashTriggered
          /\ Fed(lastOp', posted', hostException')
          /\ posted'[1].data.errorType = "ReferenceError" )
        => \E i \in CrashesIn(posted', "error_based") :
              /\ i > 1
              /\ posted'[i].data.primaryError.message = posted'[1].data.message
              /\ posted'[i].data.primaryError.type = "ReferenceError" ]_vars

\* C6: a ReferenceError whose message matches no pattern has crashed the
\* page's first critical entry.
ReferenceErrorCrashed ==
    /\ lastOp = "uncaught_error"
    /\ Len(posted) = 2
    /\ posted[1].data.errorType = "ReferenceError"
    /\ ~Contains(posted[1].data.message, {"is not defined"})
    /\ IsCrash(posted[2], "error_based")
    /\ Len(recentCriticalErrors) = 1

\* the dom_based CrashEvents of a step are exactly one, with this reason
OneDomCrash(p, reason) ==
    /\ Len(p) = 1
    /\ IsCrash(p[1], "dom_based")
    /\ p[1].data.reason = reason

\* C7: a check() made while the latch is clear sends one dom_based
\* CrashEvent when the top match has a reason no scan returned before,
\* nothing when the top match is the one of the previous check(), and one
\* CrashEvent when it differs from the one of the previous check().
DomDetectorDedupsByReason ==
    [][ (lastOp' = "checkForDOMCrash" /\ steps' = steps + 1 /\ ~crashTriggered)
        => /\ (lastScan' # <<>> /\ lastScan' \notin seenReasons)
                 => OneDomCrash(posted', lastScan')
           /\ (lastScan' # <<>> /\ lastScan' = lastScan) => posted' = <<>>
           /\ (lastScan' # <<>> /\ lastScan # <<>> /\ lastScan' # lastScan)
                 => OneDomCrash(posted', lastScan') ]_vars

\* C7: the top match changed between two checks and the second CrashEvent
\* has been sent.
DomReasonChanged ==
    /\ lastOp = "checkForDOMCrash"
    /\ ~crashTriggered
    /\ prevScan # <<>>
    /\ lastScan # <<>>
    /\ lastScan # prevScan
    /\ OneDomCrash(posted, lastScan)
    /\ crashCount.dom_based >= 2


(***************************************************************************)
(* The dashboard merging a page snapshot into the stored one.  One         *)
(* category takes every pair of sequences of up to MaxMergeLen elements;   *)
(* the others hold fixed elements.                                         *)
(***************************************************************************)
CategorySet == {"consoleErrors", "pageErrors", "apiErrors", "crashes"}

Element(t, m, u) == [timestamp |-> t, message |-> m, url |-> u]
Elements(cat) ==
    IF cat = "apiErrors"
    THEN {Element(t, <<"a">>, u) : t \in 1..2, u \in {"/u", "/v"}}
    ELSE {Element(t, m, "/u") : t \in 1..2, m \in {<<"a">>, <<"b">>}}

SeqsUpTo(S, n) == UNION {[1..k -> S] : k \in 0..n}

OtherBase == <<Element(7, <<"p">>, "/p")>>
OtherIncoming == <<Element(7, <<"p">>, "/p"), Element(8, <<"q">>, "/q")>>

Snapshot(focus, items, other, absent) ==
    [consoleErrors |-> IF focus = "consoleErrors" THEN items ELSE other,
     pageErrors |-> IF focus = "pageErrors" THEN items ELSE other,
     apiErrors |-> IF focus = "apiErrors" THEN items ELSE other,
     crashes |-> IF focus = "crashes" THEN items ELSE other,
     apiRequests |-> other,
     absent |-> absent]

InitMerge ==
    /\ heap = SampleHeap
    /\ AgentStarts(EmptyBuffers, 0)
    /\ NormIdle
    /\ PopupIdle
    /\ merges = 0
    /\ \E focus \in CategorySet :
          /\ \E items \in SeqsUpTo(Elements(focus), MaxMergeLen) :
                \E absent \in IF focus = "pageErrors" /\ items = <<>>
                              THEN {{}, {"pageErrors"}} ELSE {{}} :
                    data = Snapshot(focus, items, OtherBase, absent)
          /\ \E items \in SeqsUpTo(Elements(focus), MaxMergeLen) :
                \E absent \in IF items = <<>> THEN {{}, {focus}} ELSE {{}} :
                    pageData = Snapshot(focus, items, OtherIncoming, absent)
    /\ mergeBase = data
    /\ mergeOnce = data

NextMerge == MergePageData

SpecMerge == InitMerge /\ [][NextMerge]_vars

\* C8: merging the same incoming snapshot a second time leaves the result of
\* the first merge as it is.
MergeIdempotent == merges >= 2 => data = mergeOnce

\* C8: two merges of an incoming snapshot that holds two key-equal elements,
\* one of which the first merge appended.
MergedTwiceWithInnerDuplicates ==
    /\ merges = 2
    /\ \E cat \in CategorySet :
          /\ Len(data[cat]) > Len(mergeBase[cat])
          /\ \E i, j \in 1..Len(pageData[cat]) :
                i < j /\ SameKey(cat, pageData[cat][i], pageData[cat][j])

IsPrefix(a, b) == Len(a) <= Len(b) /\ SubSeq(b, 1, Len(a)) = a

\* a is b with some elements left out
RECURSIVE IsSubsequence(_, _)
IsSubsequence(a, b) ==
    IF a = <<>> THEN TRUE
    ELSE IF b = <<>> THEN FALSE
    ELSE IF Head(a) = Head(b) THEN IsSubsequence(Tail(a), Tail(b))
    ELSE IsSubsequence(a, Tail(b))

\* C9: after a merge every category starts with the sequence it held
\* before, and what follows it are elements of incoming in incoming's order.
MergeAppendsInOrder ==
    merges >= 1 =>
        \A cat \in CategorySet :
            /\ IsPrefix(mergeBase[cat], data[cat])
            /\ IsSubsequence(SubSeq(data[cat], Len(mergeBase[cat]) + 1, Len(data[cat])),
                             pageData[cat])

\* C9: a merge appended two elements to a non-empty category.
MergeAppendedTwo ==
    /\ merges >= 1
    /\ \E cat \in CategorySet :
          /\ Len(mergeBase[cat]) = MaxMergeLen
          /\ Len(data[cat]) = Len(mergeBase[cat]) + 2


(***************************************************************************)
(* extractErrorInfo on the values of a page.  A heap is a chain of up to   *)
(* MaxChain wrappers (node i refers to node i + 1 by cause, error or       *)
(* reason) that ends in a value without references or refers back to one   *)
(* of its own nodes.                                                       *)
(***************************************************************************)
Primitive(t, str, falsy) ==
    [BaseValue EXCEPT !.tag = "primitive", !.typeofV = t, !.str = str,
                      !.falsy = falsy]

LeafValues ==
    {[BaseValue EXCEPT !.tag = "null"], [BaseValue EXCEPT !.tag = "undefined"]}
    \cup {[BaseValue EXCEPT !.tag = "Error", !.name = n, !.message = m,
                            !.hasMessage = TRUE, !.stack = st,
                            !.componentStack = cs] :
            n \in {"", "TypeError"}, m \in {<<>>, <<"m">>},
            st \in {<<>>, StackTok}, cs \in {<<>>, <<"in App">>}}
    \cup {[BaseValue EXCEPT !.tag = "ErrorEvent", !.message = m,
                            !.hasMessage = TRUE] : m \in {<<>>, <<"m">>}}
    \cup {[BaseValue EXCEPT !.tag = "DOMException", !.name = "AbortError",
                            !.message = m, !.hasMessage = TRUE] :
            m \in {<<>>, <<"m">>}}
    \cup {[BaseValue EXCEPT !.componentStack = cs, !.hasMessage = hm[1],
                            !.message = hm[2], !.name = n, !.typeF = ty,
                            !.json = js[1], !.jsonThrows = js[2],
                            !.strThrows = sthr] :
            cs \in {<<>>, <<"in App">>},
            hm \in {<<FALSE, <<>> >>, <<TRUE, <<>> >>, <<TRUE, <<"m">> >>},
            n \in {"", "N"}, ty \in {"", "T"},
            js \in {<< <<"{}">>, FALSE >>, << <<"{a:1}">>, FALSE >>,
                    << <<>>, FALSE >>, << <<>>, TRUE >>},
            sthr \in BOOLEAN}
    \cup {Primitive("string", <<>>, TRUE), Primitive("string", <<"boom">>, FALSE),
          Primitive("number", <<"0">>, TRUE), Primitive("number", <<"42">>, FALSE),
          Primitive("boolean", <<"false">>, TRUE),
          Primitive("boolean", <<"true">>, FALSE),
          Primitive("symbol", <<"Symbol()">>, FALSE)}

LinkKinds == {"cause", "error", "reason", "event", "react"}

\* a wrapper of kind k around the value at reference t
Wrapper(k, t) ==
    IF k = "cause"
    THEN [BaseValue EXCEPT !.tag = "Error", !.name = "Error",
                           !.message = <<"outer">>, !.hasMessage = TRUE,
                           !.stack = StackTok, !.cause = t]
    ELSE IF k = "error"
    THEN [BaseValue EXCEPT !.error = t, !.json = <<"{error:", "...}">>]
    ELSE IF k = "reason"
    THEN [BaseValue EXCEPT !.reason = t, !.json = <<"{reason:", "...}">>]
    ELSE IF k = "event" THEN [BaseValue EXCEPT !.tag = "ErrorEvent", !.error = t]
    ELSE [BaseValue EXCEPT !.componentStack = <<"in App">>, !.error = t]

\* the wrappers kinds[1..k] around leaf; JSON.stringify leaves out a
\* property that is undefined
ChainHeap(kinds, leaf) ==
    [i \in 1..(Len(kinds) + 1) |->
        IF i < Len(kinds) THEN Wrapper(kinds[i], i + 1)
        ELSE IF i = Len(kinds)
        THEN IF leaf.tag = "undefined" /\ kinds[i] \in {"error", "reason"}
             THEN [Wrapper(kinds[i], i + 1) EXCEPT !.json = <<"{}">>]
             ELSE Wrapper(kinds[i], i + 1)
        ELSE leaf]

\* the wrappers kinds[1..k], the last one referring back to node back
CycleHeap(kinds, back) ==
    [i \in 1..Len(kinds) |->
        Wrapper(kinds[i], IF i < Len(kinds) THEN i + 1 ELSE back)]

InitNorm ==
    /\ AgentStarts(EmptyBuffers, 0)
    /\ DashIdle
    /\ normArg = 1
    /\ normResult = <<>>
    /\ \E k \in 0..MaxChain :
          \E kinds \in [1..k -> LinkKinds] :
              \/ \E leaf \in LeafValues : heap = ChainHeap(kinds, leaf)
              \/ \E back \in 1..k : heap = CycleHeap(kinds, back)

NextNorm == Normalize

SpecNorm == InitNorm /\ [][NextNorm]_vars

\* C10: extractErrorInfo returns, without raising, a record whose type and
\* message are both non-empty.
NormalizeReturnsNonEmpty ==
    normResult # <<>> =>
        /\ ~normResult[1].threw
        /\ normResult[1].type # ""
        /\ normResult[1].message # <<>>


(***************************************************************************)
(* extractErrorInfo on long and cyclic chains of cause, error and reason.  *)
(***************************************************************************)
DeepKinds == {"cause", "error", "reason"}

DeepLeaves ==
    {[BaseValue EXCEPT !.tag = "null"],
     Primitive("string", <<"boom">>, FALSE),
     [BaseValue EXCEPT !.tag = "Error", !.name = "TypeError",
                       !.message = <<"m">>, !.hasMessage = TRUE,
                       !.stack = StackTok],
     [BaseValue EXCEPT !.json = <<"{a:1}">>]}

InitDeep ==
    /\ AgentStarts(EmptyBuffers, 0)
    /\ DashIdle
    /\ normArg = 1
    /\ normResult = <<>>
    /\ \E k \in 0..MaxDeep :
          \E kinds \in [1..k -> DeepKinds] :
              \/ \E leaf \in DeepLeaves : heap = ChainHeap(kinds, leaf)
              \/ \E back \in 1..k : heap = CycleHeap(kinds, back)

NextDeep == Normalize

SpecDeep == InitDeep /\ [][NextDeep]_vars

\* the value is an Error with a cause, or a plain object that
\* extractErrorInfo unwraps through error or reason
IsCauseLink(h, r) == h[r].tag = "Error" /\ Truthy(h, h[r].cause)
IsWrapperLink(h, r) ==
    /\ h[r].tag = "object" /\ h[r].componentStack = <<>> /\ ~h[r].hasMessage
    /\ (Truthy(h, h[r].error) \/ Truthy(h, h[r].reason))
IsLink(h, r) == IsCauseLink(h, r) \/ IsWrapperLink(h, r)

\* the value k links down the chain that starts at r (0 past its end)
RECURSIVE Walk(_, _, _)
Walk(h, r, k) ==
    IF k = 0 \/ r = 0 THEN r
    ELSE IF IsCauseLink(h, r) THEN Walk(h, h[r].cause, k - 1)
    ELSE IF IsWrapperLink(h, r)
    THEN Walk(h, IF Truthy(h, h[r].error) THEN h[r].error ELSE h[r].reason, k - 1)
    ELSE 0

\* the chain from r is cyclic or has more than MaxDepth levels
DeeperThanCap(h, r) ==
    \A k \in 0..MaxDepth : Walk(h, r, k) # 0 /\ IsLink(h, Walk(h, r, k))
\* the same, through error and reason only
WrappersDeeperThanCap(h, r) ==
    \A k \in 0..MaxDepth : Walk(h, r, k) # 0 /\ IsWrapperLink(h, Walk(h, r, k))

\* C11 as stated: on a chain that is cyclic or longer than 3 levels
\* extractErrorInfo makes at most 5 calls and returns the sentinel.
DeepChainGivesSentinel ==
    (normResult # <<>> /\ DeeperThanCap(heap, normArg)) =>
        /\ NestedCalls(heap, normArg, 0) <= MaxDepth + 2
        /\ normResult[1] = MaxDepthSentinel

\* C11 amended: extractErrorInfo makes at most 5 calls; on a chain that is
\* cyclic or longer than 3 levels it returns the sentinel when the chain
\* runs through error and reason only, and otherwise the record of the first
\* Error on the chain, with that Error's name and message.
DeepChainCapped ==
    normResult # <<>> =>
        /\ NestedCalls(heap, normArg, 0) <= MaxDepth + 2
        /\ WrappersDeeperThanCap(heap, normArg)
              => normResult[1] = MaxDepthSentinel
        /\ (DeeperThanCap(heap, normArg) /\ ~WrappersDeeperThanCap(heap, normArg))
              => \E k \in 0..MaxDepth :
                    LET e == heap[Walk(heap, normArg, k)] IN
                    /\ e.tag = "Error"
                    /\ \A j \in 0..(k - 1) :
                          heap[Walk(heap, normArg, j)].tag # "Error"
                    /\ ~normResult[1].threw
                    /\ normResult[1].type = e.name
                    /\ normResult[1].message = e.message

\* C11: the sentinel came back from the fifth call, on a chain of four
\* wrappers that is not cyclic.
SentinelFromFifthCall ==
    /\ normResult = <<MaxDepthSentinel>>
    /\ Len(heap) = MaxDepth + 2
    /\ NestedCalls(heap, normArg, 0) = MaxDepth + 2


(***************************************************************************)
(* The network wrappers.                                                   *)
(***************************************************************************)
Last(q) == q[Len(q)]
\* the steps in which a network call completes with a response
CompletionOps == {"xhr.loadend", "fetch"}

\* C12: a network call completing with status >= 400, through either
\* wrapper, is appended in that step to apiRequests and to api and forwarded
\* as api_request and as api_error; one completing with a 2xx status is
\* appended to apiRequests and forwarded as api_request only.
FailedCallsInBothBuffers ==
    [][ lastOp' \in CompletionOps =>
          /\ Len(posted') >= 1
          /\ posted'[1].type = "api_request"
          /\ localErrors'.apiRequests # <<>>
          /\ Last(localErrors'.apiRequests) = posted'[1].data
          /\ Len(inserted'.apiRequests) = Len(inserted.apiRequests) + 1
          /\ posted'[1].data.status >= 400 =>
                /\ Len(posted') = 2
                /\ posted'[2].type = "api_error"
                /\ posted'[2].data.status = posted'[1].data.status
                /\ posted'[2].data.type = posted'[1].data.type
                /\ localErrors'.api # <<>>
                /\ Last(localErrors'.api) = posted'[2].data
                /\ Len(inserted'.api) = Len(inserted.api) + 1
          /\ (posted'[1].data.status >= 200 /\ posted'[1].data.status <= 299) =>
                /\ Len(posted') = 1
                /\ localErrors'.api = localErrors.api
                /\ inserted'.api = inserted.api ]_vars

\* C12: a fetch answered 503 has been recorded in both buffers, the api
\* buffer full.
FailedFetchInBothBuffers ==
    /\ lastOp = "fetch"
    /\ Len(posted) = 2
    /\ posted[1].data.status = 503
    /\ Len(localErrors.api) = ApiCap
    /\ Last(localErrors.api).status = 503
    /\ Last(localErrors.apiRequests).status = 503

\* the entries the network wrappers have recorded
NetworkTypes == {"xhr", "fetch", "xhr_network_error", "xhr_timeout", "fetch_error"}
Recorded(b) == {inserted[b][i] : i \in 1..Len(inserted[b])}
NetworkEntries ==
    {e \in Recorded("apiRequests") \cup Recorded("api") : e.type \in NetworkTypes}

\* C13: every network entry has isError exactly when its status is 0 or
\* >= 400, and only such entries are in the api buffer.
IsErrorIffFailedStatus ==
    /\ \A e \in NetworkEntries : e.isError <=> (e.status = 0 \/ e.status >= 400)
    /\ \A e \in Recorded("api") : e.status = 0 \/ e.status >= 400


(***************************************************************************)
(* The signal detector fed entries of every kind, from its start.          *)
(***************************************************************************)
TriggerConsoleArgs == {<<1>>, <<2>>, <<4>>, <<9>>, <<10>>}
TriggerWindowArgs ==
    {<<3, <<"Uncaught ReferenceError: x is not defined">> >>,
     <<8, <<"Uncaught ReferenceError: Cannot access 'x'">> >>}

NextTrigger ==
    \/ \E args \in TriggerConsoleArgs :
          steps < MaxTriggerEvents /\ ConsoleError(args)
    \/ \E a \in TriggerWindowArgs :
          steps < MaxTriggerEvents /\ WindowError(a[1], a[2])
    \/ steps < MaxTriggerEvents /\ UnhandledRejection(5)

SpecTrigger == Init /\ [][NextTrigger]_vars

\* C14: an entry fed to the unlatched detector sends a CrashEvent exactly
\* when it is classified critical and is a ReferenceError, or has "is not
\* defined" in its message, or has a componentStack, or brings the window
\* to 3 or more; an entry not classified critical leaves window, latch and
\* timers as they were.
CrashIffCriticalAndRule ==
    [][ (Fed(lastOp', posted', hostException') /\ ~crashTriggered) =>
          LET e == posted'[1].data
              critical == isCriticalError(e.errorType, e.message)
              rule == \/ e.errorType = "ReferenceError"
                      \/ \E i \in 1..Len(e.message) : e.message[i] = "is not defined"
                      \/ e.componentStack # <<>>
                      \/ Len(recentCriticalErrors') >= 3
          IN  /\ (CrashesIn(posted', "error_based") # {}) <=> (critical /\ rule)
              /\ crashTriggered' <=> (critical /\ rule)
              /\ ~critical =>
                    /\ recentCriticalErrors' = recentCriticalErrors
                    /\ cooldownTimers' = cooldownTimers
                    /\ Len(posted') = 1 ]_vars

\* C14: an entry with a componentStack that is not classified critical has
\* been fed to the unlatched detector and nothing but the entry was sent.
HarmlessComponentStackFed ==
    /\ lastOp = "console.error"
    /\ ~hostException
    /\ Len(posted) = 1
    /\ posted[1].data.componentStack # <<>>
    /\ ~isCriticalError(posted[1].data.errorType, posted[1].data.message)
    /\ ~crashTriggered
    /\ Len(recentCriticalErrors) = 2


(***************************************************************************)
(* The critical-error window over a minute and in a burst of errors.       *)
(***************************************************************************)
\* time passes, WindowTickMs at a time
WindowTick ==
    /\ now < MaxWindowTicks * WindowTickMs
    /\ now' = now + WindowTickMs
    /\ lastOp' = "tick"
    /\ posted' = <<>>
    /\ hostException' = FALSE
    /\ UNCHANGED <<heap, localErrors, recentCriticalErrors, crashTriggered,
                   cooldownTimers, lastDOMCrashReason, lastDomReported, xhr, lastScan, inserted,
                   steps, lastCrashAt, lastErrorCrashAt, crashCount,
                   prevScan, seenReasons,
                   dashVars, normVars, envVars, monitorVars>>

\* the entries of a burst at time 0: an uncaught ReferenceError, then n - 1
\* console.error(new TypeError(...))
BurstPage ==
    <<WindowErrorEntry(SampleHeap, 3,
                       <<"Uncaught ReferenceError: x is not defined">>, 0, 1)>>
BurstConsole(n) ==
    [i \in 1..(n - 1) |-> ConsoleErrorEntry(SampleHeap, <<2>>, 0, i)]
BurstWindow(n) ==
    [i \in 1..n |-> [entry |-> (BurstPage \o BurstConsole(n))[i], capturedAt |-> 0]]

\* the capture script right after that burst: the first entry has latched
\* the detector, the others have joined the window
AfterBurst(n) ==
    /\ now = 0
    /\ localErrors = [EmptyBuffers EXCEPT !.page = BurstPage,
                                          !.console = BurstConsole(n)]
    /\ inserted = localErrors
    /\ recentCriticalErrors = BurstWindow(n)
    /\ crashTriggered = TRUE
    /\ cooldownTimers = <<CooldownMs>>
    /\ lastDOMCrashReason = <<>>
    /\ lastDomReported = <<>>
    /\ xhr = "idle"
    /\ lastOp = "console.error"
    /\ posted = <<sendToContentScript("console_error", Last(BurstConsole(n)))>>
    /\ hostException = FALSE
    /\ postMessageThrows = FALSE
    /\ setupTimers = {d \in SetupDelays : d > now}
    /\ scanTimers = <<>>
    /\ crashTimeout = 0
    /\ mutations = 0
    /\ lastMutationAt = -1
    /\ checksSinceMutation = 0
    /\ lastScan = <<>>
    /\ prevScan = <<>>
    /\ seenReasons = {}
    /\ steps = 0
    /\ lastCrashAt = 0
    /\ lastErrorCrashAt = 0
    /\ crashCount = [error_based |-> 1, dom_based |-> 0]

InitWindow ==
    /\ heap = SampleHeap
    /\ \/ AgentStarts(EmptyBuffers, 0)
       \/ AfterBurst(CriticalTail - WindowGap)
    /\ DashIdle
    /\ NormIdle

NextWindow ==
    \/ steps < MaxWindowEvents /\ ConsoleError(<<2>>)
    \/ steps < MaxWindowEvents
          /\ WindowError(3, <<"Uncaught ReferenceError: x is not defined">>)
    \/ CooldownFire
    \/ WindowTick

SpecWindow == InitWindow /\ [][NextWindow]_vars

\* the entry is critical by count alone: none of the first three disjuncts
\* of the trigger rule holds for it
CountOnly(e) ==
    /\ e.errorType # "ReferenceError"
    /\ \A i \in 1..Len(e.message) : e.message[i] # "is not defined"
    /\ e.componentStack = <<>>

\* C15: right after an insertion into the window its elements are the
\* earlier ones and the new one that were captured less than 60000 ms ago,
\* one captured exactly 60000 ms ago being dropped; an entry that triggers
\* by count alone sends a CrashEvent only with three elements captured
\* within the last 60000 ms.
WindowHoldsLastMinute ==
    [][ ( /\ Fed(lastOp', posted', hostException')
          /\ isCriticalError(posted'[1].data.errorType, posted'[1].data.message) )
        => LET w == recentCriticalErrors'
               before == Append(recentCriticalErrors,
                                [entry |-> posted'[1].data, capturedAt |-> now'])
               kept == {i \in 1..Len(before) :
                            before[i].capturedAt > now' - WindowMs}
           IN  /\ \A i \in 1..Len(w) : w[i].capturedAt > now' - WindowMs
               /\ Len(w) = Cardinality(kept)
               /\ \A i \in kept : \E j \in 1..Len(w) : w[j] = before[i]
               /\ ( /\ CountOnly(posted'[1].data)
                    /\ CrashesIn(posted', "error_based") # {} )
                  => Cardinality({i \in 1..Len(w) :
                                     w[i].capturedAt > now' - WindowMs}) >= 3 ]_vars

\* C15: a third critical entry arrived exactly 60000 ms after the first, which
\* was dropped, and nothing was sent for it.
FirstEntryAgedOut ==
    /\ lastOp = "console.error"
    /\ now = WindowMs
    /\ steps = 3
    /\ crashCount.error_based = 0
    /\ Len(inserted.console) = 3
    /\ inserted.console[1].timestamp = 0
    /\ Len(recentCriticalErrors) = 2
    /\ ~crashTriggered

\* C16: the window never holds more than 10 elements and no CrashEvent
\* carries more than 10 of them.
WindowWithinTen ==
    /\ Len(recentCriticalErrors) <= CriticalTail
    /\ \A i \in 1..Len(posted) :
          posted[i].type = "crash_detected"
              => Len(posted[i].data.recentCriticalErrors) <= CriticalTail


(***************************************************************************)
(* The DOM detector beside the signal detector.                            *)
(***************************************************************************)
NextDom ==
    \/ \E dom \in DomStates : steps < MaxDomEvents /\ checkForDOMCrash(dom)
    \/ steps < MaxDomEvents
          /\ WindowError(3, <<"Uncaught ReferenceError: x is not defined">>)
    \/ steps < MaxDomEvents /\ ConsoleError(<<1>>)
    \/ CooldownFire
    \/ Tick

SpecDom == Init /\ [][NextDom]_vars

\* the step is a run of checkForDOMCrash
DomStep == lastOp' = "checkForDOMCrash" /\ steps' = steps + 1

\* C17: the reason the DOM detector remembers changes only in a check that
\* sends a dom_based CrashEvent.
ReasonChangesOnlyWithCrash ==
    [][ lastDOMCrashReason' # lastDOMCrashReason
            => (DomStep /\ CrashesIn(posted', "dom_based") # {}) ]_vars

\* C18: a run of checkForDOMCrash leaves the latch, the window, the cooldown
\* timers and the four buffers as they were, and sends a CrashEvent exactly
\* when the scan finds a match whose reason differs from the remembered one
\* and the latch is clear.
DomCheckLeavesDetectorAlone ==
    [][ DomStep =>
          /\ crashTriggered' = crashTriggered
          /\ recentCriticalErrors' = recentCriticalErrors
          /\ cooldownTimers' = cooldownTimers
          /\ localErrors' = localErrors
          /\ inserted' = inserted
          /\ \A i \in 1..Len(posted') : posted'[i].type = "crash_detected"
          /\ (posted' # <<>>) <=>
                (lastScan' # <<>> /\ lastScan' # lastDOMCrashReason
                                  /\ ~crashTriggered) ]_vars

\* C18: checkForDOMCrash has sent a CrashEvent after an error_based one and
\* the end of its cooldown, the page buffer holding the entry of that time.
DomCrashBesideBuffers ==
    /\ lastOp = "checkForDOMCrash"
    /\ CrashesIn(posted, "dom_based") # {}
    /\ lastErrorCrashAt >= 0
    /\ ~crashTriggered
    /\ cooldownTimers = <<>>
    /\ Len(localErrors.page) = 1
    /\ Len(recentCriticalErrors) = 0


(***************************************************************************)
(* What a merge appends and what it holds afterwards.                      *)
(***************************************************************************)
\* the key the claim gives each category
KeyOf(cat, e) ==
    IF cat = "consoleErrors" THEN <<e.timestamp, e.message>>
    ELSE IF cat = "apiErrors" THEN <<e.timestamp, e.url>>
    ELSE <<e.timestamp>>

HasKey(cat, q, k) == \E i \in 1..Len(q) : KeyOf(cat, q[i]) = k
NoTwoKeyEqual(cat, q) ==
    \A i, j \in 1..Len(q) : KeyOf(cat, q[i]) = KeyOf(cat, q[j]) => i = j

\* the positions of incoming whose element is appended: its key is neither
\* in base nor at an earlier position of incoming
Appended(cat, base, incoming) ==
    {i \in 1..Len(incoming) :
        /\ ~HasKey(cat, base, KeyOf(cat, incoming[i]))
        /\ \A j \in 1..(i - 1) :
              KeyOf(cat, incoming[j]) # KeyOf(cat, incoming[i])}

\* C19: the first merge appends to each category exactly the incoming
\* elements whose key no element then in the category has, in incoming's
\* order; a category without key-equal elements before has none after.
MergeAppendsExactlyNewKeys ==
    merges >= 1 =>
        \A cat \in CategorySet :
            LET base == mergeBase[cat]
                incoming == IF cat \in pageData.absent THEN <<>> ELSE pageData[cat]
                added == SubSeq(mergeOnce[cat], Len(base) + 1, Len(mergeOnce[cat]))
            IN  /\ IsPrefix(base, mergeOnce[cat])
                /\ Len(added) = Cardinality(Appended(cat, base, incoming))
                /\ \A i \in Appended(cat, base, incoming) :
                      \E n \in 1..Len(added) :
                          /\ added[n] = incoming[i]
                          /\ n = Cardinality({j \in Appended(cat, base, incoming) : j <= i})
                /\ NoTwoKeyEqual(cat, base) => NoTwoKeyEqual(cat, mergeOnce[cat])

\* C19: a merge has appended one of two console entries of incoming that
\* share a timestamp and skipped the other, whose key base already held.
MergeToldKeysApart ==
    /\ merges >= 1
    /\ Len(mergeBase.consoleErrors) = 1
    /\ Len(pageData.consoleErrors) = 2
    /\ Len(mergeOnce.consoleErrors) = 2
    /\ pageData.consoleErrors[1] = mergeBase.consoleErrors[1]
    /\ pageData.consoleErrors[2].timestamp = mergeBase.consoleErrors[1].timestamp
    /\ pageData.consoleErrors[2].message # mergeBase.consoleErrors[1].message

\* the categories of a snapshot
SnapshotCategories == CategorySet \cup {"apiRequests"}

\* C20: after a merge every element of every category of incoming,
\* apiRequests included, is in the same category of the result, as itself
\* or as an element with its key.
MergeHoldsAllOfIncoming ==
    merges >= 1 =>
        \A cat \in SnapshotCategories \ pageData.absent :
            \A i \in 1..Len(pageData[cat]) :
                HasKey(cat, data[cat], KeyOf(cat, pageData[cat][i]))


(***************************************************************************)
(* extractErrorInfo on values to which several of its rules apply.         *)
(***************************************************************************)
\* what the value under test may refer to by error and by reason
InnerError ==
    [BaseValue EXCEPT !.tag = "Error", !.name = "RangeError",
                      !.message = <<"inner">>, !.hasMessage = TRUE,
                      !.stack = StackTok]
InnerReason == Primitive("string", <<"why">>, FALSE)

\* values that combine a class with componentStack, message, error, reason
DispatchSubjects ==
    {[BaseValue EXCEPT !.tag = t, !.name = n, !.componentStack = cs,
                       !.hasMessage = (hm \/ t # "object"),
                       !.message = IF hm THEN <<"own">> ELSE <<>>,
                       !.error = e, !.reason = r] :
        t \in {"Error", "ErrorEvent", "DOMException", "object"},
        n \in {"", "CustomError"}, cs \in {<<>>, <<"in App">>},
        hm \in BOOLEAN, e \in {0, 2}, r \in {0, 3}}
    \cup {[BaseValue EXCEPT !.tag = "null"], [BaseValue EXCEPT !.tag = "undefined"],
          Primitive("number", <<"42">>, FALSE)}

InitDispatch ==
    /\ AgentStarts(EmptyBuffers, 0)
    /\ DashIdle
    /\ normArg = 1
    /\ normResult = <<>>
    /\ \/ \E v \in DispatchSubjects : heap = <<v, InnerError, InnerReason>>
       \/ heap = ChainHeap([i \in 1..(MaxDepth + 1) |-> "error"], InnerReason)

NextDispatch == Normalize

SpecDispatch == InitDispatch /\ [][NextDispatch]_vars

\* C21: extractErrorInfo applies the first rule that matches, in the order
\* depth cap, null / undefined, Error, ErrorEvent, DOMException, object
\* (componentStack, message, error, reason, serialization), primitive; the
\* first rule that matches a DOMException is the one for Error.
FirstMatchingRuleWins ==
    normResult # <<>> =>
        LET v == heap[normArg]
            res == normResult[1]
            obj == v.tag = "object"
            wraps == Len(heap) = MaxDepth + 2
        IN  /\ wraps => res = MaxDepthSentinel
            /\ v.tag = "null" => res.type = "null"
            /\ v.tag = "undefined" => res.type = "undefined"
            /\ v.tag \in {"Error", "DOMException"} =>
                  /\ res.type = (IF v.name # "" THEN v.name ELSE "Error")
                  /\ res.componentStack = v.componentStack
            /\ v.tag = "ErrorEvent" =>
                  res.type = (IF v.error # 0 THEN "RangeError" ELSE "ErrorEvent")
            /\ (obj /\ ~wraps /\ v.componentStack # <<>>) => res.type = "ReactError"
            /\ (obj /\ v.componentStack = <<>> /\ v.hasMessage) =>
                  /\ res.type = (IF v.name # "" THEN v.name ELSE "ObjectError")
                  /\ res.message = v.message
                  /\ NestedCalls(heap, normArg, 0) = 1
            /\ (obj /\ ~wraps /\ v.componentStack = <<>> /\ ~v.hasMessage
                    /\ v.error # 0) =>
                  /\ res.type = "RangeError"
                  /\ res.message = <<"inner">>
            /\ (obj /\ v.componentStack = <<>> /\ ~v.hasMessage
                    /\ v.error = 0 /\ v.reason # 0) =>
                  /\ res.type = "string"
                  /\ res.message = <<"why">>
            /\ (obj /\ v.componentStack = <<>> /\ ~v.hasMessage
                    /\ v.error = 0 /\ v.reason = 0) => res.type = "Object"
            /\ v.tag = "primitive" => res.type = v.typeofV

\* C21: a plain object with componentStack, message, error and reason has
\* been classified by its componentStack.
ReactErrorDespiteMessage ==
    /\ normResult # <<>>
    /\ heap[normArg].tag = "object"
    /\ heap[normArg].componentStack # <<>>
    /\ heap[normArg].hasMessage
    /\ heap[normArg].error # 0
    /\ heap[normArg].reason # 0
    /\ normResult[1].type = "ReactError"


(***************************************************************************)
(* The order of a capture: append, forward, evaluate the detector.         *)
(***************************************************************************)
\* the buffer a handler appends to and the field of a CrashEvent that
\* carries the end of that buffer
BufferOf(op) == IF op = "console.error" THEN "console" ELSE "page"
SnapshotOf(op, crash) ==
    IF op = "console.error" THEN crash.recentConsoleErrors
    ELSE crash.recentPageErrors

\* C22: when an entry triggers an error_based CrashEvent, its own event has
\* been sent first, and the entry is the last element of its buffer, of the
\* buffer snapshot and of the recentCriticalErrors the CrashEvent carries.
EntryPrecedesItsCrash ==
    [][ ( /\ Fed(lastOp', posted', hostException')
          /\ CrashesIn(posted', "error_based") # {} )
        => /\ Len(posted') = 2
           /\ posted'[1].type \in {"console_error", "page_error", "promise_rejection"}
           /\ posted'[2].type = "crash_detected"
           /\ Last(localErrors'[BufferOf(lastOp')]) = posted'[1].data
           /\ Last(SnapshotOf(lastOp', posted'[2].data)) = posted'[1].data
           /\ Last(posted'[2].data.recentCriticalErrors).entry = posted'[1].data
           /\ posted'[2].data.primaryError.message = posted'[1].data.message ]_vars

\* C22: an uncaught error has triggered a CrashEvent that carries it after
\* an earlier page entry and an earlier critical entry.
CrashCarriesEarlierEntries ==
    /\ lastOp = "uncaught_error"
    /\ Len(posted) = 2
    /\ posted[2].type = "crash_detected"
    /\ Len(posted[2].data.recentPageErrors) = 2
    /\ Len(posted[2].data.recentCriticalErrors) = 2
    /\ posted[2].data.recentPageErrors[2] = posted[1].data


(***************************************************************************)
(* The handlers on a page whose window.postMessage may throw.              *)
(***************************************************************************)
MaxTransportEvents == 2

\* the page makes window.postMessage throw, or stops doing so
PostMessageFlips ==
    /\ postMessageThrows' = ~postMessageThrows
    /\ UNCHANGED <<heap, agentVars, dashVars, normVars, monitorVars>>

NextTransport ==
    \/ PostMessageFlips
    \/ \E args \in TriggerConsoleArgs :
          steps < MaxTransportEvents /\ ConsoleError(args)
    \/ \E a \in TriggerWindowArgs :
          steps < MaxTransportEvents /\ WindowError(a[1], a[2])
    \/ steps < MaxTransportEvents /\ UnhandledRejection(5)
    \/ steps < MaxTransportEvents /\ ConsoleWarn(<<1>>)
    \/ \E st \in Statuses : steps < MaxTransportEvents /\ FetchResolved(st)
    \/ steps < MaxTransportEvents /\ FetchRejected(7)

SpecTransport == Init /\ [][NextTransport]_vars

\* C23: a handler that runs while window.postMessage throws still appends
\* its entry, still evaluates the detector (latch set and cooldown scheduled
\* exactly when the rule holds), hands nothing to the sink and lets no
\* exception reach the page.
TransportFailureAbsorbed ==
    [][ (postMessageThrows /\ steps' = steps + 1) =>
          /\ posted' = <<>>
          /\ hostException' = FALSE
          /\ \E b \in BufferNames :
                /\ Len(inserted'[b]) = Len(inserted[b]) + 1
                /\ Last(localErrors'[b]) = Last(inserted'[b])
          /\ lastOp' \in DetectorOps =>
                LET e == Last(inserted'[BufferOf(lastOp')])
                    rce == PushCritical(e)
                IN  IF /\ ~crashTriggered
                       /\ isCriticalError(e.errorType, e.message)
                       /\ shouldTriggerCrash(e, rce)
                    THEN /\ crashTriggered'
                         /\ recentCriticalErrors' = rce
                         /\ cooldownTimers' = Append(cooldownTimers, now + CooldownMs)
                    ELSE /\ crashTriggered' = crashTriggered
                         /\ cooldownTimers' = cooldownTimers
          /\ lastOp' \notin DetectorOps => UNCHANGED <<crashTriggered,
                recentCriticalErrors, cooldownTimers>> ]_vars

\* C23: the first handler ran while window.postMessage threw and latched
\* the detector, with nothing handed to the sink.
LatchedWithoutDelivery ==
    /\ steps = 1
    /\ postMessageThrows
    /\ lastOp \in DetectorOps
    /\ posted = <<>>
    /\ ~hostException
    /\ crashTriggered
    /\ cooldownTimers = <<now + CooldownMs>>


(***************************************************************************)
(* The crash monitor: the observer's debounced scan.                       *)
(***************************************************************************)
NextMonitor ==
    \/ Mutation
    \/ DebouncedScan
    \/ SetupScan
    \/ ScanTick

SpecMonitor ==
    /\ Init
    /\ [][NextMonitor]_vars
    /\ WF_vars(ScanTick)
    /\ WF_vars(DebouncedScan)

\* the step is a run of checkForDOMCrash from a timer of the observer
DebouncedStep == checksSinceMutation' = checksSinceMutation + 1

MaxCooldownEvents == 4

\* time passes, up to the due time of the pending cooldown timer
CooldownTick ==
    /\ IF cooldownTimers = <<>> THEN now < MaxTime
       ELSE Head(cooldownTimers) > now
    /\ now' = IF cooldownTimers # <<>>
              THEN Min(now + TickMs, Head(cooldownTimers))
              ELSE now + TickMs
    /\ lastOp' = "tick"
    /\ posted' = <<>>
    /\ hostException' = FALSE
    /\ UNCHANGED <<heap, localErrors, recentCriticalErrors, crashTriggered,
                   cooldownTimers, lastDOMCrashReason, lastDomReported, xhr, lastScan, inserted,
                   steps, lastCrashAt, lastErrorCrashAt, crashCount,
                   prevScan, seenReasons, dashVars, normVars, envVars,
                   monitorVars>>

NextCooldown ==
    \/ steps < MaxCooldownEvents /\ ConsoleError(<<2>>)
    \/ steps < MaxCooldownEvents
          /\ WindowError(3, <<"Uncaught ReferenceError: x is not defined">>)
    \/ CooldownFire
    \/ CooldownTick

SpecCooldown == Init /\ [][NextCooldown]_vars

\* the step is the callback of the cooldown timer
CooldownStep == Len(cooldownTimers') < Len(cooldownTimers)

\* C25: at most one cooldown timer is pending, and one is pending exactly
\* while the latch is set; it runs 10000 ms after the emission that set the
\* latch and leaves the latch clear and the window empty; an entry fed to
\* the latched detector sends no CrashEvent; and no entry captured before
\* the timer ran is in the window of a later unlatched evaluation.
OneCooldownClearsAll ==
    /\ [](Len(cooldownTimers) <= 1)
    /\ [](crashTriggered <=> cooldownTimers # <<>>)
    /\ [][ CooldownStep =>
             /\ now = lastErrorCrashAt + CooldownMs
             /\ ~crashTriggered'
             /\ recentCriticalErrors' = <<>>
             /\ cooldownTimers' = <<>> ]_vars
    /\ [][ (crashTriggered /\ Fed(lastOp', posted', hostException'))
             => /\ ~AnyCrashIn(posted')
                /\ UNCHANGED <<crashTriggered, cooldownTimers>> ]_vars
    /\ [][ ( /\ ~crashTriggered
             /\ lastErrorCrashAt >= 0
             /\ Fed(lastOp', posted', hostException') )
           => /\ \A i \in 1..Len(recentCriticalErrors') :
                    recentCriticalErrors'[i].capturedAt
                       >= lastErrorCrashAt + CooldownMs
              /\ CountOnly(posted'[1].data)
                    => (AnyCrashIn(posted') <=> Len(recentCriticalErrors') >= 3)
              /\ Len(recentCriticalErrors') <=
                    Len(recentCriticalErrors) + 1 ]_vars

\* C25: two critical entries arrived while the detector was latched, the
\* timer ran, and the next critical entry stands alone in the window and
\* has sent no CrashEvent.
LatchedEntriesForgotten ==
    /\ steps = 4
    /\ crashCount.error_based = 1
    /\ Len(inserted.console) = 3
    /\ lastOp = "console.error"
    /\ ~crashTriggered
    /\ Len(recentCriticalErrors) = 1
    /\ Len(posted) = 1


(***************************************************************************)
(* The handlers that do not feed the signal detector, called with          *)
(* messages that match its patterns.                                       *)
(***************************************************************************)
MaxFrameEvents == 3
FrameAssertArgs == {<<FALSE, <<10>> >>, <<TRUE, <<10>> >>}

NextFrame ==
    \/ steps < MaxFrameEvents /\ ConsoleError(<<2>>)
    \/ steps < MaxFrameEvents
          /\ WindowError(3, <<"Uncaught ReferenceError: x is not defined">>)
    \/ steps < MaxFrameEvents /\ ConsoleWarn(<<10>>)
    \/ \E a \in FrameAssertArgs :
          steps < MaxFrameEvents /\ ConsoleAssert(a[1], a[2])
    \/ XhrSend
    \/ \E st \in Statuses \cup {0} : steps < MaxFrameEvents /\ XhrLoadend(st)
    \/ steps < MaxFrameEvents /\ XhrError
    \/ steps < MaxFrameEvents /\ XhrTimeout
    \/ \E st \in Statuses : steps < MaxFrameEvents /\ FetchResolved(st)
    \/ steps < MaxFrameEvents /\ FetchRejected(7)

SpecFrame == Init /\ [][NextFrame]_vars

\* the handlers that record an entry without calling checkForErrorBasedCrash
RecordingOps ==
    {"console.warn", "console.assert", "xhr.loadend", "xhr.error",
     "xhr.timeout", "fetch", "fetch.catch"}

\* C26: a console.warn, a console.assert, an XHR loadend, error or timeout
\* and a fetch completion or failure leave the critical-error window, the
\* latch and the cooldown timers as they were and send no CrashEvent.
OnlyErrorCapturesFeedDetector ==
    [][ (lastOp' \in RecordingOps /\ steps' = steps + 1) =>
          /\ UNCHANGED <<recentCriticalErrors, crashTriggered, cooldownTimers>>
          /\ ~AnyCrashIn(posted') ]_vars

\* C26: with two critical entries in the window of the unlatched detector, a
\* fetch has failed with the critical "Failed to fetch" TypeError, and the
\* window still holds two.
CriticalFetchFailureNotFed ==
    /\ lastOp = "fetch.catch"
    /\ Len(posted) = 1
    /\ isCriticalError(posted[1].data.errorType, posted[1].data.message)
    /\ Contains(posted[1].data.message, {"Failed to fetch"})
    /\ ~crashTriggered
    /\ Len(recentCriticalErrors) = 2


(***************************************************************************)
(* API errors per network call.                                            *)
(***************************************************************************)
\* the api_error messages among p
ApiErrorsIn(p) == {i \in 1..Len(p) : p[i].type = "api_error"}

\* C27: a network call adds at most one entry to the api buffer and sends
\* at most one api_error: no step adds or sends two, and the loadend of an
\* XHR whose error or timeout listener has recorded the failure adds and
\* sends none.
OneApiErrorPerCall ==
    [][ /\ Len(inserted'.api) <= Len(inserted.api) + 1
        /\ Cardinality(ApiErrorsIn(posted')) <= 1
        /\ (xhr = "failed" /\ lastOp' = "xhr.loadend")
              => /\ inserted'.api = inserted.api
                 /\ ApiErrorsIn(posted') = {} ]_vars


(***************************************************************************)
(* A crash screen that disappears and comes back.                          *)
(***************************************************************************)
MaxReasonEvents == 4

\* the documents scanned: no match, a match of the first selector, a match
\* of the second one only
ReasonDoms ==
    {[i \in 1..NumSelectors |-> "absent"],
     [i \in 1..NumSelectors |-> IF i = 1 THEN "shown" ELSE "absent"],
     [i \in 1..NumSelectors |-> IF i = 2 THEN "shown" ELSE "absent"]}

NextReason ==
    \/ \E dom \in ReasonDoms : steps < MaxReasonEvents /\ checkForDOMCrash(dom)
    \/ steps < MaxReasonEvents
          /\ WindowError(3, <<"Uncaught ReferenceError: x is not defined">>)
    \/ CooldownFire
    \/ CooldownTick

SpecReason == Init /\ [][NextReason]_vars

\* a scan that finds no match leaves the remembered reason as it was
NoMatchKeepsReason ==
    [][ (DomStep /\ lastScan' = <<>>)
          => lastDOMCrashReason' = lastDOMCrashReason ]_vars

\* C28: a scan that finds no match leaves the remembered reason as it was,
\* and no dom_based CrashEvent carries the reason of the dom_based
\* CrashEvent before it: a reason is sent again only after a different one
\* has been sent.
SameReasonNotReportedAgain ==
    /\ NoMatchKeepsReason
    /\ [][ (DomStep /\ CrashesIn(posted', "dom_based") # {})
             => lastScan' # lastDomReported ]_vars


(***************************************************************************)
(* Popup dashboard: loadErrors, the clear handler, the tabs, renderList.   *)
(* An await suspends its handler; the response it waits for is taken when  *)
(* the request is sent and the handler resumes at any later step.  The     *)
(* background answers getStoredErrors with the snapshot it holds and       *)
(* empties it on clearAllErrors; the content script does the same for      *)
(* getErrors and clearErrors.                                              *)
(***************************************************************************)
DisplayLimit == 30
MaxStored == 2

Tabs == {"crashes", "api", "console", "requests"}

\* the data object of the clear handler and of a failed getStoredErrors
ResetData == [EmptyData EXCEPT !.absent = {"apiRequests"}]

\* what the background holds when the popup opens
StoredSample ==
    [consoleErrors |-> [i \in 1..MaxStored |-> Element(i, <<"a">>, "/u")],
     pageErrors |-> [i \in 1..MaxStored |-> Element(i, <<"b">>, "/u")],
     apiErrors |-> [i \in 1..MaxStored |-> Element(i, <<"a">>, "/v")],
     crashes |-> [i \in 1..MaxStored |-> Element(i, <<"c">>, "/u")],
     apiRequests |-> [i \in 1..(DisplayLimit + 1) |-> Element(i, <<"r">>, "/u")],
     absent |-> {}]

\* what the content script holds: the newest stored element of each
\* category and one the background has not got
PageSample ==
    [consoleErrors |-> [i \in 1..2 |-> Element(MaxStored + i - 1, <<"a">>, "/u")],
     pageErrors |-> [i \in 1..2 |-> Element(MaxStored + i - 1, <<"b">>, "/u")],
     apiErrors |-> [i \in 1..2 |-> Element(MaxStored + i - 1, <<"a">>, "/v")],
     crashes |-> [i \in 1..2 |-> Element(MaxStored + i - 1, <<"c">>, "/u")],
     apiRequests |-> <<>>,
     absent |-> {"apiRequests"}]

\* items.sort((a, b) => new Date(b.timestamp) - new Date(a.timestamp)): a
\* stable sort, newest first
InsertDesc(sorted, e) ==
    LET k == Cardinality({i \in 1..Len(sorted) :
                             sorted[i].timestamp >= e.timestamp})
    IN  SubSeq(sorted, 1, k) \o <<e>> \o SubSeq(sorted, k + 1, Len(sorted))

RECURSIVE SortDesc(_)
SortDesc(items) ==
    IF items = <<>> THEN <<>>
    ELSE InsertDesc(SortDesc(SubSeq(items, 1, Len(items) - 1)),
                    items[Len(items)])

\* the array of data that renderList sorts on tab, "" when it sorts a copy
SortedInPlace(tab) ==
    IF tab = "crashes" THEN "crashes"
    ELSE IF tab = "api" THEN "apiErrors"
    ELSE IF tab = "requests" THEN "apiRequests"
    ELSE ""

\* renderList on data d and tab: the data and the list it leaves
renderList(d, tab) ==
    LET items == IF tab = "console" THEN d.consoleErrors \o d.pageErrors
                 ELSE d[SortedInPlace(tab)]
    IN  IF items = <<>>
        THEN [data |-> d, displayed |-> <<>>]
        ELSE [data |-> IF tab = "console" THEN d
                       ELSE [d EXCEPT ![SortedInPlace(tab)] = SortDesc(items)],
              displayed |-> SliceHead(SortDesc(items), DisplayLimit)]

\* the end of loadErrors on data d: updateStats, updateStatus, renderList
LoadEnds(d) ==
    /\ data' = renderList(d, currentTab).data
    /\ displayed' = renderList(d, currentTab).displayed
    /\ loadPc' = "idle"
    /\ loadResp' = EmptyData

PopupFrame ==
    UNCHANGED <<heap, agentVars, pageData, mergeBase, mergeOnce, merges,
                normVars, envVars, monitorVars>>

\* loadErrors is called: getStoredErrors goes to the background
LoadStart ==
    /\ loadPc = "idle"
    /\ loadPc' = "getStoredErrors"
    /\ \E success \in BOOLEAN :
          loadResp' = IF success THEN stored ELSE ResetData
    /\ freshClear' = FALSE
    /\ UNCHANGED <<data, stored, pageStore, clearPc, currentTab, displayed>>
    /\ PopupFrame

\* loadErrors resumes with bgResponse and asks for the active tab
LoadGotStored ==
    /\ loadPc = "getStoredErrors"
    /\ data' = loadResp
    /\ loadPc' = "tabs.query"
    /\ UNCHANGED <<stored, pageStore, loadResp, clearPc, freshClear,
                   currentTab, displayed>>
    /\ PopupFrame

\* loadErrors resumes with the tab: it injects content.js into a tab with
\* a valid url and goes to its end otherwise
LoadGotTab ==
    /\ loadPc = "tabs.query"
    /\ \E valid \in BOOLEAN :
          IF valid
          THEN /\ loadPc' = "executeScript"
               /\ UNCHANGED <<data, displayed, loadResp>>
          ELSE LoadEnds(data)
    /\ UNCHANGED <<stored, pageStore, clearPc, freshClear, currentTab>>
    /\ PopupFrame

\* executeScript is done: getErrors goes to the content script; if it threw,
\* the catch leads to the end of loadErrors
LoadInjected ==
    /\ loadPc = "executeScript"
    /\ \E injected \in BOOLEAN :
          IF injected
          THEN /\ loadPc' = "getErrors"
               /\ loadResp' = pageStore
               /\ UNCHANGED <<data, displayed>>
          ELSE LoadEnds(data)
    /\ UNCHANGED <<stored, pageStore, clearPc, freshClear, currentTab>>
    /\ PopupFrame

\* loadErrors resumes with pageResponse, merges it and goes to its end
LoadGotPage ==
    /\ loadPc = "getErrors"
    /\ LoadEnds(mergePageData(data, loadResp))
    /\ UNCHANGED <<stored, pageStore, clearPc, freshClear, currentTab>>
    /\ PopupFrame

\* the clear button, confirmed: clearAllErrors goes to the background
ClearClick ==
    /\ clearPc = "idle"
    /\ clearPc' = "clearAllErrors"
    /\ stored' = EmptyData
    /\ UNCHANGED <<data, pageStore, loadPc, loadResp, freshClear, currentTab,
                   displayed>>
    /\ PopupFrame

\* the handler resumes and asks for the active tab
ClearGotBg ==
    /\ clearPc = "clearAllErrors"
    /\ clearPc' = "tabs.query"
    /\ UNCHANGED <<data, stored, pageStore, loadPc, loadResp, freshClear,
                   currentTab, displayed>>
    /\ PopupFrame

\* the reset of the local data, updateStats, renderList
ClearEnds ==
    /\ data' = renderList(ResetData, currentTab).data
    /\ displayed' = renderList(ResetData, currentTab).displayed
    /\ clearPc' = "idle"
    /\ freshClear' = TRUE

\* the handler resumes with the tab: clearErrors goes to the content script
\* of a tab with a valid url; otherwise the handler resets the local data
ClearGotTab ==
    /\ clearPc = "tabs.query"
    /\ \E valid \in BOOLEAN :
          IF valid
          THEN /\ clearPc' = "clearErrors"
               /\ pageStore' = EmptyData
               /\ UNCHANGED <<data, displayed, freshClear>>
          ELSE ClearEnds /\ UNCHANGED pageStore
    /\ UNCHANGED <<stored, loadPc, loadResp, currentTab>>
    /\ PopupFrame

\* the handler resumes after clearErrors and resets the local data
ClearGotPage ==
    /\ clearPc = "clearErrors"
    /\ ClearEnds
    /\ UNCHANGED <<stored, pageStore, loadPc, loadResp, currentTab>>
    /\ PopupFrame

\* the click handler of a tab
TabClick(tab) ==
    /\ currentTab' = tab
    /\ data' = renderList(data, tab).data
    /\ displayed' = renderList(data, tab).displayed
    /\ UNCHANGED <<stored, pageStore, loadPc, loadResp, clearPc, freshClear>>
    /\ PopupFrame

InitPopup ==
    /\ heap = SampleHeap
    /\ AgentStarts(EmptyBuffers, 0)
    /\ NormIdle
    /\ data = EmptyData
    /\ pageData = EmptyData
    /\ mergeBase = EmptyData
    /\ mergeOnce = EmptyData
    /\ merges = 0
    /\ stored = StoredSample
    /\ pageStore = PageSample
    /\ loadPc = "idle"
    /\ loadResp = EmptyData
    /\ clearPc = "idle"
    /\ freshClear = FALSE
    /\ currentTab = "crashes"
    /\ displayed = <<>>

NextPopup ==
    \/ LoadStart
    \/ LoadGotStored
    \/ LoadGotTab
    \/ LoadInjected
    \/ LoadGotPage
    \/ ClearClick
    \/ ClearGotBg
    \/ ClearGotTab
    \/ ClearGotPage
    \/ \E tab \in Tabs : TabClick(tab)

SpecPopup == InitPopup /\ [][NextPopup]_vars

\* C29: from the reset of the clear handler until loadErrors is next
\* called, crashes, apiErrors, consoleErrors and pageErrors of data are
\* empty, whatever a loadErrors call suspended at an await resumes with.
ClearedStaysEmpty ==
    freshClear => \A cat \in CategorySet : data[cat] = <<>>

\* the step is a run of renderList alone: a click on a tab
RenderStep ==
    /\ UNCHANGED <<loadPc, clearPc, stored, pageStore, loadResp, freshClear>>
    /\ displayed' # displayed \/ currentTab' # currentTab

\* the k newest elements of items are those of shown
NewestOf(items, shown, k) ==
    /\ Len(shown) = Min(Len(items), k)
    /\ \A i \in 1..Len(shown) : \E j \in 1..Len(items) : items[j] = shown[i]
    /\ \A j \in 1..Len(items) :
          (\A i \in 1..Len(shown) : shown[i] # items[j])
             => \A i \in 1..Len(shown) : shown[i].timestamp >= items[j].timestamp

\* C30: a click on a tab leaves every array of data as it was, order
\* included, and the list shows at most 30 elements, the newest of the
\* tab's category.
RenderLeavesDataAlone ==
    [][ RenderStep =>
          /\ data' = data
          /\ Len(displayed') <= DisplayLimit
          /\ NewestOf(IF currentTab' = "console"
                      THEN data.consoleErrors \o data.pageErrors
                      ELSE data[SortedInPlace(currentTab')],
                      displayed', DisplayLimit) ]_vars

=============================================================================
